---- MODULE Spec2Model ----
(***************************************************************************)
(* Energy accounting of the game engine: EnergyManager's pure calculations *)
(* (src/src/models/ZoneConfig.ts), UserService.consumeEnergy and           *)
(* UserService.regenerateEnergy on the User row, and ZoneService's         *)
(* enterRecoveryZone / leaveRecoveryZone on the UserEnergyState row.       *)
(*                                                                         *)
(* Number representation.  The code computes with JavaScript numbers.      *)
(*   - Energy quantities are carried in half points, Pt(n) = 2n, so that   *)
(*     maxEnergy * (1 + 0.50) is exact for odd maxEnergy (105 -> 157.5).   *)
(*   - Times are whole minutes.                                            *)
(*   - regenMultiplier and recoveryZoneMultiplier are carried in tenths    *)
(*     (1.0 -> 10, 2.5 -> 25), percentages in hundredths (0.50 -> 50).     *)
(*   - A nullable Date is << >> (null) or <<t>>.                           *)
(***************************************************************************)
EXTENDS Integers, Sequences, FiniteSets, TLC

VARIABLES
    now,    \* wall clock (new Date()), in minutes
    user,   \* the player's User row
    es,     \* the player's UserEnergyState row
    pc,     \* per caller: where its UserService call stands
    loc,    \* per caller: the call's arguments and the row it read
    calls,  \* number of calls started so far
    last,   \* the last call that completed (returned or threw)
    acct,   \* history: energy debited and granted by successful calls
    calc,   \* inputs and output of a stand-alone EnergyManager calculation
    rewards,   \* the player's MilestoneReward rows
    events,    \* the XpMultiplierEvent rows
    avgLevel,  \* GameStats 'averageUserLevel'
    inv,       \* the player's tool instance and inventory slot
    market,    \* a MarketListing row with the currency and items of its traders
    quest      \* the player's UserQuestProgress row and the rewards granted for it

vars == <<now, user, es, pc, loc, calls, last, acct, calc, rewards, events, avgLevel, inv, market, quest>>

----------------------------------------------------------------------------
(* Bounds of the model *)

MaxTime == 3
MaxCalls == 3

----------------------------------------------------------------------------
(* Numbers *)

Pt(n) == 2 * n

Min(a, b) == IF a <= b THEN a ELSE b

Max(a, b) == IF a >= b THEN a ELSE b

NoDate == << >>

IsNull(d) == Len(d) = 0

----------------------------------------------------------------------------
(* EnergyManager: constants *)

baseRegenerationRate == 1
baseMaxEnergy == 100
energyPerLevel == 5
maxOverflowPercentage == 50
defaultOverflowDuration == 60
recoveryZoneMultiplier == 25
defaultRegenMultiplier == 10

----------------------------------------------------------------------------
(* EnergyManager: pure calculations *)

\* Math.floor(baseEnergy * (1 + passiveBonus)); passiveBonus in hundredths.
getMaxEnergyForLevel(level, passiveBonus) ==
    LET baseEnergy == baseMaxEnergy + (level - 1) * energyPerLevel
    IN  Pt((baseEnergy * (100 + passiveBonus)) \div 100)

getEffectiveEnergyCap(currentEnergy, maxEnergy, overflowExpiry, t) ==
    IF IsNull(overflowExpiry) \/ t > overflowExpiry[1]
    THEN Max(currentEnergy, maxEnergy)
    ELSE LET overflowCap == (maxEnergy * (100 + maxOverflowPercentage)) \div 100
         IN  Max(currentEnergy, overflowCap)

\* The input validation at the head of calculateRegeneratedEnergy.
calculateRegeneratedEnergyThrows(currentEnergy, maxEnergy, regenMultiplier) ==
    \/ currentEnergy < 0
    \/ maxEnergy <= 0
    \/ regenMultiplier < 0

\* Variant: the elapsed time is not floored at 0 when lastEnergyUpdate is
\* ahead of the clock.
calculateRegeneratedEnergy_NoSkewFloor(currentEnergy, maxEnergy, lastEnergyUpdate, regenMultiplier, inRecoveryZone, t) ==
    LET effectiveCap == getEffectiveEnergyCap(currentEnergy, maxEnergy, NoDate, t)
        minutesPassed == t - lastEnergyUpdate
        effectiveMultiplier ==
            IF inRecoveryZone
            THEN regenMultiplier * recoveryZoneMultiplier
            ELSE regenMultiplier * 10
        energyGained ==
            Pt((minutesPassed * baseRegenerationRate * effectiveMultiplier) \div 100)
    IN  IF currentEnergy >= effectiveCap
        THEN currentEnergy
        ELSE Min(currentEnergy + energyGained, effectiveCap)

\* Variant: the minute that has started counts as elapsed.
calculateRegeneratedEnergy_CountsStartedMinute(currentEnergy, maxEnergy, lastEnergyUpdate, regenMultiplier, inRecoveryZone, t) ==
    LET effectiveCap == getEffectiveEnergyCap(currentEnergy, maxEnergy, NoDate, t)
        minutesPassed == Max(0, t - lastEnergyUpdate + 1)
        effectiveMultiplier ==
            IF inRecoveryZone
            THEN regenMultiplier * recoveryZoneMultiplier
            ELSE regenMultiplier * 10
        energyGained ==
            Pt((minutesPassed * baseRegenerationRate * effectiveMultiplier) \div 100)
    IN  IF currentEnergy >= effectiveCap
        THEN currentEnergy
        ELSE Min(currentEnergy + energyGained, effectiveCap)

\* Variant: the regenerated energy is capped at the overflow cap instead of
\* the effective cap.
calculateRegeneratedEnergy_OverflowCap(currentEnergy, maxEnergy, lastEnergyUpdate, regenMultiplier, inRecoveryZone, t) ==
    LET effectiveCap == getEffectiveEnergyCap(currentEnergy, maxEnergy, <<t>>, t)
        minutesPassed == Max(0, t - lastEnergyUpdate)
        effectiveMultiplier ==
            IF inRecoveryZone
            THEN regenMultiplier * recoveryZoneMultiplier
            ELSE regenMultiplier * 10
        energyGained ==
            Pt((minutesPassed * baseRegenerationRate * effectiveMultiplier) \div 100)
    IN  IF currentEnergy >= effectiveCap
        THEN currentEnergy
        ELSE Min(currentEnergy + energyGained, effectiveCap)

\* The call passes no overflowExpiry to getEffectiveEnergyCap, so the
\* parameter takes its default, null.
calculateRegeneratedEnergy(currentEnergy, maxEnergy, lastEnergyUpdate, regenMultiplier, inRecoveryZone, t) ==
    LET effectiveCap == getEffectiveEnergyCap(currentEnergy, maxEnergy, NoDate, t)
        minutesPassed == Max(0, t - lastEnergyUpdate)
        \* in hundredths
        effectiveMultiplier ==
            IF inRecoveryZone
            THEN regenMultiplier * recoveryZoneMultiplier
            ELSE regenMultiplier * 10
        energyGained ==
            Pt((minutesPassed * baseRegenerationRate * effectiveMultiplier) \div 100)
    IN  IF currentEnergy >= effectiveCap
        THEN currentEnergy
        ELSE Min(currentEnergy + energyGained, effectiveCap)

\* The input validation at the head of applyEnergyBoost.
applyEnergyBoostThrows(currentEnergy, maxEnergy, boostAmount, overflowDuration) ==
    \/ currentEnergy < 0
    \/ maxEnergy <= 0
    \/ boostAmount <= 0
    \/ overflowDuration < 0

\* Variant: the expiry is armed as soon as the result reaches maxEnergy.
applyEnergyBoost_ExpiryAtMax(currentEnergy, maxEnergy, boostAmount, allowOverflow, overflowDuration, t) ==
    LET maxPossibleEnergy ==
            IF allowOverflow
            THEN (maxEnergy * (100 + maxOverflowPercentage)) \div 100
            ELSE maxEnergy
        newEnergy == Min(currentEnergy + boostAmount, maxPossibleEnergy)
    IN  [energy |-> newEnergy,
         overflowExpiry |->
            IF newEnergy >= maxEnergy THEN <<t + overflowDuration>> ELSE NoDate]

applyEnergyBoost(currentEnergy, maxEnergy, boostAmount, allowOverflow, overflowDuration, t) ==
    LET maxPossibleEnergy ==
            IF allowOverflow
            THEN (maxEnergy * (100 + maxOverflowPercentage)) \div 100
            ELSE maxEnergy
        newEnergy == Min(currentEnergy + boostAmount, maxPossibleEnergy)
    IN  [energy |-> newEnergy,
         overflowExpiry |->
            IF newEnergy > maxEnergy THEN <<t + overflowDuration>> ELSE NoDate]

\* The input validation at the head of calculateEnergyEfficiency.
calculateEnergyEfficiencyThrows(baseEnergyCost, efficiencyBonus) ==
    \/ baseEnergyCost <= 0
    \/ efficiencyBonus < 0

\* The pairs <<baseEnergyCost, efficiencyBonus>>, among the arguments used
\* here, for which the double-precision product
\* baseEnergyCost * (1 - efficiencyBonus) lies below the whole number the
\* exact product is: 1 - 0.9 is 0.09999999999999998 and 100 times that is
\* 9.999999999999998.
shortProducts ==
    { <<5, 80>>, <<10, 80>>, <<10, 90>>, <<20, 80>>, <<20, 90>>,
      <<25, 56>>, <<25, 80>>, <<100, 56>>, <<100, 80>>, <<100, 90>> }

\* Math.floor(baseEnergyCost * (1 - efficiencyBonus)) in double precision;
\* efficiencyBonus in hundredths.
floorOfProduct(baseEnergyCost, efficiencyBonus) ==
    LET exact == (baseEnergyCost * (100 - efficiencyBonus)) \div 100
    IN  IF <<baseEnergyCost, efficiencyBonus>> \in shortProducts
        THEN exact - 1
        ELSE exact

calculateEnergyEfficiency(baseEnergyCost, efficiencyBonus) ==
    LET capped == IF efficiencyBonus > 90 THEN 90 ELSE efficiencyBonus
    IN  Max(1, floorOfProduct(baseEnergyCost, capped))

----------------------------------------------------------------------------
(* UserService: energy on the User row *)

\* db.user.update({ data: { currentEnergy } }): Prisma stamps the row's
\* updatedAt column (NOT NULL, no default, never supplied by createUser)
\* with the time of the update.
dbUserUpdateEnergy(row, currentEnergy, t) ==
    [row EXCEPT !.currentEnergy = currentEnergy, !.updatedAt = t]

\* Variant: only negative amounts are rejected.
consumeEnergy_LaxGuard(row, amount, t) ==
    IF amount < 0
    THEN [result |-> "InvalidAmount", currentEnergy |-> row.currentEnergy]
    ELSE LET currentEnergy ==
                 calculateRegeneratedEnergy(row.currentEnergy, row.maxEnergy,
                     row.updatedAt, defaultRegenMultiplier, FALSE, t)
         IN  IF currentEnergy < amount
             THEN [result |-> "InsufficientEnergy", currentEnergy |-> row.currentEnergy]
             ELSE [result |-> "ok", currentEnergy |-> currentEnergy - amount]

\* Variant: the sufficiency check uses the regenerated energy, the debit
\* the stored one.
consumeEnergy_StaleDebit(row, amount, t) ==
    IF amount <= 0
    THEN [result |-> "InvalidAmount", currentEnergy |-> row.currentEnergy]
    ELSE LET currentEnergy ==
                 calculateRegeneratedEnergy(row.currentEnergy, row.maxEnergy,
                     row.updatedAt, defaultRegenMultiplier, FALSE, t)
         IN  IF currentEnergy < amount
             THEN [result |-> "InsufficientEnergy", currentEnergy |-> row.currentEnergy]
             ELSE [result |-> "ok", currentEnergy |-> row.currentEnergy - amount]

\* consumeEnergy, given the row getUserById returned and the time t at which
\* the regeneration is calculated and the update issued.
consumeEnergy(row, amount, t) ==
    IF amount <= 0
    THEN [result |-> "InvalidAmount", currentEnergy |-> row.currentEnergy]
    ELSE LET currentEnergy ==
                 calculateRegeneratedEnergy(row.currentEnergy, row.maxEnergy,
                     row.updatedAt, defaultRegenMultiplier, FALSE, t)
         IN  IF currentEnergy < amount
             THEN [result |-> "InsufficientEnergy", currentEnergy |-> row.currentEnergy]
             ELSE [result |-> "ok", currentEnergy |-> currentEnergy - amount]

\* Variant: the sum is not capped at maxEnergy.
regenerateEnergy_NoClamp(row, amount, t) ==
    IF amount < 0
    THEN [result |-> "InvalidAmount", currentEnergy |-> row.currentEnergy]
    ELSE LET currentEnergy ==
                 calculateRegeneratedEnergy(row.currentEnergy, row.maxEnergy,
                     row.updatedAt, defaultRegenMultiplier, FALSE, t)
         IN  [result |-> "ok", currentEnergy |-> currentEnergy + amount]

\* regenerateEnergy, given the row getUserById returned and the time t.
regenerateEnergy(row, amount, t) ==
    IF amount < 0
    THEN [result |-> "InvalidAmount", currentEnergy |-> row.currentEnergy]
    ELSE LET currentEnergy ==
                 calculateRegeneratedEnergy(row.currentEnergy, row.maxEnergy,
                     row.updatedAt, defaultRegenMultiplier, FALSE, t)
             newEnergy == Min(currentEnergy + amount, row.maxEnergy)
         IN  [result |-> "ok", currentEnergy |-> newEnergy]

----------------------------------------------------------------------------
(* ZoneService: recovery zones on the UserEnergyState row *)

Zones == {"spa", "lodge", "mine"}

NoZone == "none"

\* ZoneService.recoveryZones, as set up by setZoneAsRecoveryZone.
recoveryZones == {"spa", "lodge"}

isRecoveryZone(zoneId) == zoneId \in recoveryZones

\* Zone.requiredLevel
requiredLevel(zoneId) == IF zoneId = "lodge" THEN 2 ELSE 1

userCanAccessZone(row, zoneId) == ~(row.level < requiredLevel(zoneId))

enterRecoveryZone(row, state, zoneId, t) ==
    IF ~userCanAccessZone(row, zoneId)
    THEN [result |-> "AccessDenied", state |-> state]
    ELSE IF ~isRecoveryZone(zoneId)
    THEN [result |-> "NotRecoveryZone", state |-> state]
    ELSE LET maxEnergy == getMaxEnergyForLevel(row.level, state.passiveMaxEnergyBonus)
             currentEnergy ==
                 calculateRegeneratedEnergy(state.currentEnergy, maxEnergy,
                     state.lastEnergyUpdate, state.regenRateMultiplier, FALSE, t)
         IN  [result |-> "ok",
              state |-> [state EXCEPT !.currentEnergy = currentEnergy,
                                      !.lastEnergyUpdate = t,
                                      !.currentRecoveryZoneId = zoneId,
                                      !.recoveryZoneEntryTime = <<t>>]]

leaveRecoveryZone(row, state, t) ==
    IF state.currentRecoveryZoneId = NoZone
    THEN [result |-> "NotInRecoveryZone", state |-> state]
    ELSE LET maxEnergy == getMaxEnergyForLevel(row.level, state.passiveMaxEnergyBonus)
             currentEnergy ==
                 calculateRegeneratedEnergy(state.currentEnergy, maxEnergy,
                     state.lastEnergyUpdate, state.regenRateMultiplier, TRUE, t)
         IN  [result |-> "ok",
              state |-> [state EXCEPT !.currentEnergy = currentEnergy,
                                      !.lastEnergyUpdate = t,
                                      !.currentRecoveryZoneId = NoZone,
                                      !.recoveryZoneEntryTime = NoDate]]

----------------------------------------------------------------------------
(* Energy boost items on the UserEnergyState row.  EnergyManager.          *)
(* applyEnergyBoost has no caller in the sources; the operation around it  *)
(* follows the design document's ApplyBoost: reconcile, boost, store with  *)
(* lastUpdate = now, and arm overflowExpiry when the result exceeds max.   *)

applyBoost(state, amount, allowOverflow, overflowDuration, t) ==
    IF amount <= 0
    THEN [result |-> "InvalidAmount", state |-> state]
    ELSE LET reconciled ==
                 calculateRegeneratedEnergy(state.currentEnergy, state.maxEnergy,
                     state.lastEnergyUpdate, state.regenRateMultiplier,
                     state.currentRecoveryZoneId # NoZone, t)
             boost == applyEnergyBoost(reconciled, state.maxEnergy, amount,
                                       allowOverflow, overflowDuration, t)
         IN  [result |-> "ok",
              state |-> [state EXCEPT !.currentEnergy = boost.energy,
                                      !.lastEnergyUpdate = t,
                                      !.overflowExpiry =
                                          IF boost.energy > state.maxEnergy
                                          THEN boost.overflowExpiry
                                          ELSE state.overflowExpiry]]

----------------------------------------------------------------------------
(* The state machine *)

Procs == {"work", "craft"}

\* Arguments the callers pass (half points; minutes).
ConsumeAmounts == {Pt(-1), Pt(0), Pt(2), Pt(60)}
GrantAmounts == {Pt(-1), Pt(0), Pt(3)}
BoostAmounts == {Pt(0), Pt(30)}
BoostDurations == {1}

\* createUser: level 1, experience 0, currentEnergy 100, maxEnergy 100; the
\* prestige columns, totalLifetimeExperience and currency default to 0.
InitUser ==
    [level |-> 1, experience |-> 0, totalLifetimeExperience |-> 0,
     prestigeLevel |-> 0, prestigePoints |-> 0, currency |-> 0,
     currentEnergy |-> Pt(100), maxEnergy |-> Pt(100), updatedAt |-> 0]

\* UserEnergyState rows are created outside these sources; the column
\* defaults are regenRateMultiplier 1.0, passive bonuses 0, no expiry, no zone.
InitEnergyStates ==
    { [currentEnergy |-> r[1], maxEnergy |-> Pt(100), lastEnergyUpdate |-> 0,
       regenRateMultiplier |-> r[2], overflowExpiry |-> NoDate,
       currentRecoveryZoneId |-> NoZone, recoveryZoneEntryTime |-> NoDate,
       passiveMaxEnergyBonus |-> 0] : r \in {<<Pt(40), 20>>, <<Pt(100), 10>>} }

NoCall ==
    [op |-> "none", result |-> "none", amount |-> 0, at |-> 0,
     read |-> InitUser, stored |-> InitUser, es |-> CHOOSE e \in InitEnergyStates : TRUE]

NoCalc == [fn |-> "none"]

\* The rows of inventory, marketplace and quests where they play no part.
NoInv == [durability |-> 0, quantity |-> 0]

NoMarket == [status |-> "none"]

NoQuest == [status |-> "none"]

IdleLoc == [amount |-> 0, row |-> InitUser]

Init ==
    /\ now = 0
    /\ user = InitUser
    /\ es \in InitEnergyStates
    /\ pc = [p \in Procs |-> "idle"]
    /\ loc = [p \in Procs |-> IdleLoc]
    /\ calls = 0
    /\ last = NoCall
    /\ acct = [debited |-> 0, granted |-> 0]
    /\ calc = NoCalc
    /\ rewards = {}
    /\ events = {}
    /\ avgLevel = 1
    /\ inv = NoInv
    /\ market = NoMarket
    /\ quest = NoQuest

Completed(op, result, amount, read) ==
    [op |-> op, result |-> result, amount |-> amount, at |-> now,
     read |-> read, stored |-> user, es |-> es]

\* Time passes.
Tick ==
    /\ now < MaxTime
    /\ now' = now + 1
    /\ UNCHANGED <<user, es, pc, loc, calls, last, acct, calc, rewards, events, avgLevel, inv, market, quest>>

\* consumeEnergy up to the end of `await this.getUserById(userId)`.
ConsumeRead(p, amount) ==
    /\ pc[p] = "idle"
    /\ calls < MaxCalls
    /\ calls' = calls + 1
    /\ IF consumeEnergy(user, amount, now).result = "InvalidAmount"
       THEN /\ last' = Completed("consume", "InvalidAmount", amount, user)
            /\ UNCHANGED <<pc, loc>>
       ELSE /\ pc' = [pc EXCEPT ![p] = "consume"]
            /\ loc' = [loc EXCEPT ![p] = [amount |-> amount, row |-> user]]
            /\ UNCHANGED last
    /\ UNCHANGED <<now, user, es, acct, calc, rewards, events, avgLevel, inv, market, quest>>

\* consumeEnergy from the regeneration calculation to the update.
ConsumeWrite(p) ==
    /\ pc[p] = "consume"
    /\ LET r == consumeEnergy(loc[p].row, loc[p].amount, now)
       IN  /\ last' = Completed("consume", r.result, loc[p].amount, loc[p].row)
           /\ IF r.result = "ok"
              THEN /\ user' = dbUserUpdateEnergy(user, r.currentEnergy, now)
                   /\ acct' = [acct EXCEPT !.debited = @ + loc[p].amount]
              ELSE UNCHANGED <<user, acct>>
    /\ pc' = [pc EXCEPT ![p] = "idle"]
    /\ loc' = [loc EXCEPT ![p] = IdleLoc]
    /\ UNCHANGED <<now, es, calls, calc, rewards, events, avgLevel, inv, market, quest>>

RegenerateEnergy(amount) ==
    /\ calls < MaxCalls
    /\ calls' = calls + 1
    /\ LET r == regenerateEnergy(user, amount, now)
       IN  /\ last' = Completed("regenerate", r.result, amount, user)
           /\ IF r.result = "ok"
              THEN /\ user' = dbUserUpdateEnergy(user, r.currentEnergy, now)
                   /\ acct' = [acct EXCEPT !.granted = @ + amount]
              ELSE UNCHANGED <<user, acct>>
    /\ UNCHANGED <<now, es, pc, loc, calc, rewards, events, avgLevel, inv, market, quest>>

EnterRecoveryZone(zoneId) ==
    /\ calls < MaxCalls
    /\ calls' = calls + 1
    /\ LET r == enterRecoveryZone(user, es, zoneId, now)
       IN  /\ last' = Completed("enter", r.result, 0, user)
           /\ es' = r.state
    /\ UNCHANGED <<now, user, pc, loc, acct, calc, rewards, events, avgLevel, inv, market, quest>>

LeaveRecoveryZone ==
    /\ calls < MaxCalls
    /\ calls' = calls + 1
    /\ LET r == leaveRecoveryZone(user, es, now)
       IN  /\ last' = Completed("leave", r.result, 0, user)
           /\ es' = r.state
    /\ UNCHANGED <<now, user, pc, loc, acct, calc, rewards, events, avgLevel, inv, market, quest>>

ApplyBoost(amount, allowOverflow, overflowDuration) ==
    /\ calls < MaxCalls
    /\ calls' = calls + 1
    /\ LET r == applyBoost(es, amount, allowOverflow, overflowDuration, now)
       IN  /\ last' = Completed("boost", r.result, amount, user)
           /\ es' = r.state
    /\ UNCHANGED <<now, user, pc, loc, acct, calc, rewards, events, avgLevel, inv, market, quest>>

Next ==
    \/ Tick
    \/ \E p \in Procs, amount \in ConsumeAmounts : ConsumeRead(p, amount)
    \/ \E p \in Procs : ConsumeWrite(p)
    \/ \E amount \in GrantAmounts : RegenerateEnergy(amount)
    \/ \E zoneId \in Zones : EnterRecoveryZone(zoneId)
    \/ LeaveRecoveryZone
    \/ \E amount \in BoostAmounts, allowOverflow \in BOOLEAN, d \in BoostDurations :
           ApplyBoost(amount, allowOverflow, d)

Spec == Init /\ [][Next]_vars

----------------------------------------------------------------------------
(* Work and craft actions in front of consumeEnergy *)

\* Energy costs of the job and of the recipe, after the skill bonuses.
WorkCosts == {Pt(2), Pt(41)}

\* `if (user.currentEnergy < energyCost)` of performWork and of canCraft,
\* on the row getUserById returned, at time t.
notEnoughEnergy(row, energyCost, t) ==
    row.currentEnergy < energyCost

\* performWork (p = "work") and craft with its canCraft (p = "craft") up to
\* the energy check: the action is rejected, or goes on to consumeEnergy.
PerformAction(p, energyCost) ==
    /\ pc[p] = "idle"
    /\ calls < MaxCalls
    /\ calls' = calls + 1
    /\ IF notEnoughEnergy(user, energyCost, now)
       THEN /\ last' = Completed(p, "NotEnoughEnergy", energyCost, user)
            /\ UNCHANGED <<pc, loc>>
       ELSE /\ pc' = [pc EXCEPT ![p] = "action"]
            /\ loc' = [loc EXCEPT ![p] = [amount |-> energyCost, row |-> user]]
            /\ UNCHANGED last
    /\ UNCHANGED <<now, user, es, acct, calc, rewards, events, avgLevel, inv, market, quest>>

\* The action's call of consumeEnergy(userId, energyCost), up to the end of
\* its getUserById.
ActionConsumeRead(p) ==
    /\ pc[p] = "action"
    /\ pc' = [pc EXCEPT ![p] = "consume"]
    /\ loc' = [loc EXCEPT ![p] = [amount |-> loc[p].amount, row |-> user]]
    /\ UNCHANGED <<now, user, es, calls, last, acct, calc, rewards, events, avgLevel, inv, market, quest>>

ActionNext ==
    \/ Tick
    \/ \E p \in Procs, energyCost \in WorkCosts : PerformAction(p, energyCost)
    \/ \E p \in Procs : ActionConsumeRead(p)
    \/ \E p \in Procs, amount \in ConsumeAmounts : ConsumeRead(p, amount)
    \/ \E p \in Procs : ConsumeWrite(p)

ActionSpec == Init /\ [][ActionNext]_vars

----------------------------------------------------------------------------
(* Stand-alone EnergyManager calculations over enumerated arguments *)

ReconcileInputs ==
    { [fn |-> "reconcileArgs", currentEnergy |-> c, maxEnergy |-> m,
       lastEnergyUpdate |-> l, regenMultiplier |-> r, inRecoveryZone |-> z,
       overflowExpiry |-> x, t |-> t] :
        c \in {Pt(0), Pt(40), Pt(99), Pt(100), Pt(130), Pt(160)},
        m \in {Pt(100), Pt(105)},
        l \in {0, 5, 70},
        r \in {-5, 0, 5, 10, 20},
        z \in BOOLEAN,
        x \in {NoDate, <<60>>, <<100>>},
        t \in {5, 61, 200} }

BoostInputs ==
    { [fn |-> "boostArgs", currentEnergy |-> c, maxEnergy |-> m,
       boostAmount |-> a, allowOverflow |-> o, overflowDuration |-> d, t |-> t] :
        c \in {Pt(0), Pt(50), Pt(70), Pt(100), Pt(130), Pt(160)},
        m \in {Pt(100), Pt(105)},
        a \in {Pt(0), Pt(30), Pt(80)},
        o \in BOOLEAN,
        d \in {0, 30, defaultOverflowDuration},
        t \in {0, 7} }

\* Arguments of calculateEnergyEfficiency; efficiencyBonus in hundredths.
EfficiencyInputs ==
    { [fn |-> "efficiencyArgs", baseEnergyCost |-> b, efficiencyBonus |-> e] :
        b \in {-1, 0, 1, 5, 10, 20, 25, 100},
        e \in {-10, 0, 10, 50, 56, 80, 90, 95, 100} }

CalcInit ==
    /\ now = 0
    /\ user = InitUser
    /\ es = CHOOSE e \in InitEnergyStates : TRUE
    /\ pc = [p \in Procs |-> "idle"]
    /\ loc = [p \in Procs |-> IdleLoc]
    /\ calls = 0
    /\ last = NoCall
    /\ acct = [debited |-> 0, granted |-> 0]
    /\ calc \in ReconcileInputs \cup BoostInputs \cup EfficiencyInputs
    /\ rewards = {}
    /\ events = {}
    /\ avgLevel = 1
    /\ inv = NoInv
    /\ market = NoMarket
    /\ quest = NoQuest

CalcReconcile ==
    /\ calc.fn = "reconcileArgs"
    /\ calc' =
         IF calculateRegeneratedEnergyThrows(calc.currentEnergy, calc.maxEnergy,
                                             calc.regenMultiplier)
         THEN [fn |-> "reconcile", args |-> calc, threw |-> TRUE, out |-> 0]
         ELSE [fn |-> "reconcile", args |-> calc, threw |-> FALSE,
               out |-> calculateRegeneratedEnergy(calc.currentEnergy, calc.maxEnergy,
                           calc.lastEnergyUpdate, calc.regenMultiplier,
                           calc.inRecoveryZone, calc.t)]
    /\ UNCHANGED <<now, user, es, pc, loc, calls, last, acct, rewards, events, avgLevel, inv, market, quest>>

CalcBoost ==
    /\ calc.fn = "boostArgs"
    /\ calc' =
         IF applyEnergyBoostThrows(calc.currentEnergy, calc.maxEnergy,
                                   calc.boostAmount, calc.overflowDuration)
         THEN [fn |-> "boost", args |-> calc, threw |-> TRUE,
               out |-> [energy |-> 0, overflowExpiry |-> NoDate]]
         ELSE [fn |-> "boost", args |-> calc, threw |-> FALSE,
               out |-> applyEnergyBoost(calc.currentEnergy, calc.maxEnergy,
                           calc.boostAmount, calc.allowOverflow,
                           calc.overflowDuration, calc.t)]
    /\ UNCHANGED <<now, user, es, pc, loc, calls, last, acct, rewards, events, avgLevel, inv, market, quest>>

CalcEfficiency ==
    /\ calc.fn = "efficiencyArgs"
    /\ calc' =
         IF calculateEnergyEfficiencyThrows(calc.baseEnergyCost, calc.efficiencyBonus)
         THEN [fn |-> "efficiency", args |-> calc, threw |-> TRUE, out |-> 0]
         ELSE [fn |-> "efficiency", args |-> calc, threw |-> FALSE,
               out |-> calculateEnergyEfficiency(calc.baseEnergyCost,
                                                 calc.efficiencyBonus)]
    /\ UNCHANGED <<now, user, es, pc, loc, calls, last, acct, rewards, events, avgLevel, inv, market, quest>>

CalcNext == CalcReconcile \/ CalcBoost \/ CalcEfficiency

CalcSpec == CalcInit /\ [][CalcNext]_vars

----------------------------------------------------------------------------
(* ExperienceCalculator: the level curve *)

maxLevel == 100

\* JavaScript's Infinity, the XP required at maxLevel; above every amount of
\* XP that occurs here.
Infinity == 1000000000

\* Math.floor(baseXP * Math.pow(xpScalingFactor, currentLevel - 1)) with
\* baseXP = 100 and xpScalingFactor = 1.2, for currentLevel = 1 .. 60.
xpRequiredTable ==
    << 100, 120, 144, 172, 207, 248, 298, 358, 429, 515,
       619, 743, 891, 1069, 1283, 1540, 1848, 2218, 2662, 3194,
       3833, 4600, 5520, 6624, 7949, 9539, 11447, 13737, 16484, 19781,
       23737, 28485, 34182, 41018, 49222, 59066, 70880, 85056, 102067, 122480,
       146977, 176372, 211647, 253976, 304771, 365726, 438871, 526645, 631974, 758369,
       910043, 1092052, 1310463, 1572555, 1887066, 2264480, 2717376, 3260851, 3913021, 4695626 >>

\* Variant: the exponent is currentLevel instead of currentLevel - 1.
getXpRequiredForNextLevel_ExponentOff(currentLevel) ==
    IF currentLevel >= maxLevel
    THEN Infinity
    ELSE xpRequiredTable[Min(currentLevel + 1, Len(xpRequiredTable))]

getXpRequiredForNextLevel(currentLevel) ==
    IF currentLevel >= maxLevel THEN Infinity ELSE xpRequiredTable[currentLevel]

\* The loop of getXpForLevel: the sum over i = from .. level - 1.
RECURSIVE sumXpRequired(_, _)
sumXpRequired(from, level) ==
    IF from >= level
    THEN 0
    ELSE getXpRequiredForNextLevel(from) + sumXpRequired(from + 1, level)

getXpForLevel(level) ==
    IF level <= 1 THEN 0 ELSE sumXpRequired(1, Min(level, maxLevel))

\* Variant: the loop goes on only above the XP needed, not at it.
RECURSIVE levelFromXpLoop_StrictlyAbove(_, _, _)
levelFromXpLoop_StrictlyAbove(xp, level, totalXpNeeded) ==
    IF xp > totalXpNeeded /\ level < maxLevel
    THEN levelFromXpLoop_StrictlyAbove(xp, level + 1,
                         totalXpNeeded + getXpRequiredForNextLevel(level + 1))
    ELSE level

\* The loop of getLevelFromXp.
RECURSIVE levelFromXpLoop(_, _, _)
levelFromXpLoop(xp, level, totalXpNeeded) ==
    IF xp >= totalXpNeeded /\ level < maxLevel
    THEN levelFromXpLoop(xp, level + 1,
                         totalXpNeeded + getXpRequiredForNextLevel(level + 1))
    ELSE level

getLevelFromXp(xp) ==
    IF xp <= 0 THEN 1 ELSE levelFromXpLoop(xp, 1, getXpRequiredForNextLevel(1))

\* getRemainingXp, without progressPercent.
getRemainingXp(totalXp) ==
    LET currentLevel == getLevelFromXp(totalXp)
        xpIntoLevel == totalXp - getXpForLevel(currentLevel)
        xpRequiredForNextLevel == getXpRequiredForNextLevel(currentLevel)
    IN  [currentLevel |-> currentLevel,
         currentXp |-> xpIntoLevel,
         nextLevelXp |-> xpRequiredForNextLevel,
         xpNeededForNextLevel |-> xpRequiredForNextLevel - xpIntoLevel]

----------------------------------------------------------------------------
(* UserService: experience multipliers and addExperience *)

\* Math.ceil(n / d) for d > 0.
Ceil(n, d) == -((-n) \div d)

\* Math.max(...values) of a non-empty set.
MaxOf(values) == CHOOSE m \in values : \A v \in values : v <= m

\* getCurrentXpMultipliers at time t for a player of the given level, with
\* rows the XpMultiplierEvent table and avg the stored average level.  The
\* query selects by startTime and endTime only.  Event multipliers are in
\* tenths, the catch-up multiplier in hundredths, their product in
\* thousandths.
getCurrentXpMultipliers(rows, avg, level, t) ==
    LET activeEvents == {e \in rows : e.startTime <= t /\ e.endTime >= t}
        eventMultiplier ==
            IF activeEvents # {}
            THEN MaxOf({e.multiplier : e \in activeEvents})
            ELSE 10
        levelDifference == avg - level
        catchupMultiplier ==
            IF levelDifference > 5
            THEN Min(100 + levelDifference * 5, 150)
            ELSE 100
    IN  [eventMultiplier |-> eventMultiplier,
         catchupMultiplier |-> catchupMultiplier,
         totalMultiplier |-> eventMultiplier * catchupMultiplier]

\* The level-up loop of addExperience: getRemainingXp is given the XP within
\* the level.
RECURSIVE levelUpLoop(_, _, _)
levelUpLoop(newExperience, newLevel, leveledUp) ==
    LET nextLevelXp == getRemainingXp(newExperience).nextLevelXp
    IN  IF newExperience >= nextLevelXp
        THEN levelUpLoop(newExperience - nextLevelXp, newLevel + 1, TRUE)
        ELSE [newExperience |-> newExperience, newLevel |-> newLevel,
              leveledUp |-> leveledUp]

\* Variant: the amount is rounded down.
addExperience_FloorXp(row, baseAmount, totalMultiplier) ==
    LET actualXp == (baseAmount * totalMultiplier) \div 1000
        up == levelUpLoop(row.experience + actualXp, row.level, FALSE)
    IN  [actualXp |-> actualXp, oldLevel |-> row.level,
         newLevel |-> up.newLevel, newExperience |-> up.newExperience,
         leveledUp |-> up.leveledUp,
         totalLifetimeExperience |-> row.totalLifetimeExperience + actualXp]

\* addExperience from the row getUserById returned to the data of the
\* update; totalMultiplier in thousandths.
addExperience(row, baseAmount, totalMultiplier) ==
    LET actualXp == Ceil(baseAmount * totalMultiplier, 1000)
        up == levelUpLoop(row.experience + actualXp, row.level, FALSE)
    IN  [actualXp |-> actualXp, oldLevel |-> row.level,
         newLevel |-> up.newLevel, newExperience |-> up.newExperience,
         leveledUp |-> up.leveledUp,
         totalLifetimeExperience |-> row.totalLifetimeExperience + actualXp]

\* db.user.update({ data: { level, experience, totalLifetimeExperience } }),
\* with Prisma's stamp of updatedAt.
dbUserUpdateExperience(row, x, t) ==
    [row EXCEPT !.level = x.newLevel,
                !.experience = x.newExperience,
                !.totalLifetimeExperience = x.totalLifetimeExperience,
                !.updatedAt = t]

\* db.user.update({ data: { currency: { increment: amount } } }) of
\* addCurrency, with Prisma's stamp of updatedAt.
dbUserUpdateCurrency(row, amount, t) ==
    [row EXCEPT !.currency = @ + amount, !.updatedAt = t]

----------------------------------------------------------------------------
(* UserService: milestone rewards *)

\* The milestones table of processMilestoneRewards; the ids stand for
\* `level-5-currency-${userId}` and so on.
milestones(level) ==
    CASE level = 5 ->
           << [id |-> "level-5-currency", rewardType |-> "CURRENCY", amount |-> 500] >>
      [] level = 10 ->
           << [id |-> "level-10-energy", rewardType |-> "MAX_ENERGY", amount |-> 10] >>
      [] level = 25 ->
           << [id |-> "level-25-title", rewardType |-> "TITLE", amount |-> 0] >>
      [] level = 50 ->
           << [id |-> "level-50-currency", rewardType |-> "CURRENCY", amount |-> 5000],
              [id |-> "level-50-energy", rewardType |-> "MAX_ENERGY", amount |-> 20],
              [id |-> "level-50-title", rewardType |-> "TITLE", amount |-> 0] >>
      [] OTHER -> << >>

\* findMany({ where: { userId, level, claimed: false } })
existingRewards(table, level) == {r \in table : r.level = level /\ ~r.claimed}

\* The loop of milestoneReward.create calls.  id is the table's primary key:
\* a create with an id the table holds is rejected and the exception leaves
\* the loop.
RECURSIVE createRewards(_, _, _)
createRewards(table, level, todo) ==
    IF todo = << >>
    THEN [result |-> "ok", table |-> table]
    ELSE IF \E r \in table : r.id = Head(todo).id
    THEN [result |-> "failed", table |-> table]
    ELSE createRewards(
             table \cup {[id |-> Head(todo).id, level |-> level,
                          rewardType |-> Head(todo).rewardType,
                          amount |-> Head(todo).amount, claimed |-> FALSE]},
             level, Tail(todo))

processMilestoneRewards(table, level) ==
    IF existingRewards(table, level) # {}
    THEN [result |-> "ok", table |-> table]
    ELSE createRewards(table, level, milestones(level))

\* An addExperience call that runs alone from its read to its return, at
\* time 0 with no multiplier in force.
addExperienceAlone(st, baseAmount) ==
    LET x == addExperience(st.user, baseAmount, 1000)
    IN  [user |-> dbUserUpdateExperience(st.user, x, 0),
         rewards |->
            IF x.leveledUp
            THEN processMilestoneRewards(st.rewards, x.newLevel).table
            ELSE st.rewards]

\* The player st after n further calls addExperience(userId, 120), or as
\* many as change the player.
RECURSIVE grownFrom(_, _)
grownFrom(st, n) ==
    LET next == addExperienceAlone(st, 120)
    IN  IF n = 0 \/ next = st
        THEN st
        ELSE grownFrom(next, n - 1)

\* The player after createUser and n calls addExperience(userId, 120).
Grown(n) == grownFrom([user |-> InitUser, rewards |-> {}], n)

----------------------------------------------------------------------------
(* The state machine of experience, milestone rewards and prestige *)

\* baseAmount arguments of addExperience.
XpAmounts == {100, 120, 364}

\* rewardId arguments of claimMilestoneReward.
ClaimIds == {"level-5-currency", "level-10-energy", "level-50-title"}

\* The players at the start: new, and after 3 and after 48 calls
\* addExperience(userId, 120), i.e. at levels 1, 4 and 49.
GrownCalls == {0, 3, 48}

MIN_PRESTIGE_LEVEL == 50

XpCompleted(l, result, table) ==
    [l EXCEPT !.result = result, !.at = now, !.table = table]

\* addExperience up to the end of `await this.getCurrentXpMultipliers(userId)`
\* and the level-up loop that follows without a further read.
AddExperienceRead(p, baseAmount) ==
    /\ pc[p] = "idle"
    /\ calls < MaxCalls
    /\ calls' = calls + 1
    /\ LET m == getCurrentXpMultipliers(events, avgLevel, user.level, now)
           x == addExperience(user, baseAmount, m.totalMultiplier)
       IN  loc' = [loc EXCEPT ![p] =
                      [op |-> "addExperience", result |-> "pending", at |-> now,
                       readAt |-> now, amount |-> baseAmount, row |-> user, multipliers |-> m,
                       x |-> x, wrote |-> FALSE, written |-> user,
                       level |-> x.newLevel, existing |-> {}, table |-> rewards]]
    /\ pc' = [pc EXCEPT ![p] = "xpUpdate"]
    /\ UNCHANGED <<now, user, es, last, acct, calc, rewards, events, avgLevel, inv, market, quest>>

\* addExperience: `await this.db.user.update(...)`; without a level-up the
\* call returns.
AddExperienceUpdate(p) ==
    /\ pc[p] = "xpUpdate"
    /\ LET u == dbUserUpdateExperience(user, loc[p].x, now)
           l == [loc[p] EXCEPT !.wrote = TRUE, !.written = u]
       IN  /\ user' = u
           /\ IF l.x.leveledUp
              THEN /\ pc' = [pc EXCEPT ![p] = "xpFind"]
                   /\ loc' = [loc EXCEPT ![p] = l]
                   /\ UNCHANGED last
              ELSE /\ pc' = [pc EXCEPT ![p] = "idle"]
                   /\ loc' = [loc EXCEPT ![p] = IdleLoc]
                   /\ last' = XpCompleted(l, "ok", rewards)
    /\ UNCHANGED <<now, es, calls, acct, calc, rewards, events, avgLevel, inv, market, quest>>

\* processMilestoneRewards called by itself, for the level the player has.
ProcessMilestoneRewards(p) ==
    /\ pc[p] = "idle"
    /\ calls < MaxCalls
    /\ calls' = calls + 1
    /\ loc' = [loc EXCEPT ![p] =
                  [op |-> "processMilestoneRewards", result |-> "pending",
                   at |-> now, readAt |-> now, amount |-> 0, row |-> user,
                   wrote |-> FALSE,
                   written |-> user, level |-> user.level, existing |-> {},
                   table |-> rewards]]
    /\ pc' = [pc EXCEPT ![p] = "xpFind"]
    /\ UNCHANGED <<now, user, es, last, acct, calc, rewards, events, avgLevel, inv, market, quest>>

\* processMilestoneRewards up to the end of the findMany; the call returns
\* when unclaimed rewards of the level exist or the level has no milestone.
MilestoneFind(p) ==
    /\ pc[p] = "xpFind"
    /\ LET l == [loc[p] EXCEPT !.existing = {r \in rewards : r.level = loc[p].level}]
       IN  IF existingRewards(rewards, l.level) # {} \/ milestones(l.level) = << >>
           THEN /\ pc' = [pc EXCEPT ![p] = "idle"]
                /\ loc' = [loc EXCEPT ![p] = IdleLoc]
                /\ last' = XpCompleted(l, "ok", rewards)
           ELSE /\ pc' = [pc EXCEPT ![p] = "xpCreate"]
                /\ loc' = [loc EXCEPT ![p] = l]
                /\ UNCHANGED last
    /\ UNCHANGED <<now, user, es, calls, acct, calc, rewards, events, avgLevel, inv, market, quest>>

\* processMilestoneRewards: the creates; a rejected create ends the call,
\* and the addExperience around it, with the exception.
MilestoneCreate(p) ==
    /\ pc[p] = "xpCreate"
    /\ LET l == [loc[p] EXCEPT !.existing = {r \in rewards : r.level = loc[p].level}]
           r == createRewards(rewards, l.level, milestones(l.level))
       IN  /\ rewards' = r.table
           /\ last' = XpCompleted(l, r.result, r.table)
    /\ pc' = [pc EXCEPT ![p] = "idle"]
    /\ loc' = [loc EXCEPT ![p] = IdleLoc]
    /\ UNCHANGED <<now, user, es, calls, acct, calc, events, avgLevel, inv, market, quest>>

\* claimMilestoneReward: a CURRENCY reward goes through addCurrency's
\* db.user.update, a MAX_ENERGY
\* reward raises UserEnergyState.maxEnergy, a TITLE reward touches other
\* tables only; every failure is caught and reported as false.
ClaimMilestoneReward(rewardId) ==
    /\ calls < MaxCalls
    /\ calls' = calls + 1
    /\ IF \E r \in rewards : r.id = rewardId /\ ~r.claimed
       THEN LET reward == CHOOSE r \in rewards : r.id = rewardId
            IN  /\ user' = IF reward.rewardType = "CURRENCY" /\ reward.amount > 0
                           THEN dbUserUpdateCurrency(user, reward.amount, now)
                           ELSE user
                /\ es' = IF reward.rewardType = "MAX_ENERGY" /\ reward.amount > 0
                         THEN [es EXCEPT !.maxEnergy = @ + Pt(reward.amount)]
                         ELSE es
                /\ rewards' = (rewards \ {reward})
                                 \cup {[reward EXCEPT !.claimed = TRUE]}
                /\ last' = Completed("claimMilestoneReward", "ok", 0, user)
       ELSE /\ last' = Completed("claimMilestoneReward", "failed", 0, user)
            /\ UNCHANGED <<user, es, rewards>>
    /\ UNCHANGED <<now, pc, loc, acct, calc, events, avgLevel, inv, market, quest>>

\* Math.ceil(100 * (1 + 0.1 * prestigeLevel)) in double arithmetic:
\* 100 * 1.1 is 110.00000000000001.
prestigeMaxEnergy(prestigeLevel) ==
    IF prestigeLevel = 1 THEN 111 ELSE 100 + 10 * prestigeLevel

\* Variant: the minimum level is not required.
PrestigeUser_NoMinimumLevel ==
    /\ calls < MaxCalls
    /\ calls' = calls + 1
    /\ IF user.level < 1
       THEN /\ last' = Completed("prestigeUser", "BelowMinimumLevel", 0, user)
            /\ UNCHANGED <<user, es, rewards>>
       ELSE LET prestigeLevel == user.prestigeLevel + 1
            IN  /\ user' = [user EXCEPT
                               !.level = 1,
                               !.experience = 0,
                               !.prestigeLevel = prestigeLevel,
                               !.prestigePoints = @ + (user.level \div 10),
                               !.updatedAt = now]
                /\ rewards' = rewards \cup
                       {[id |-> "prestige-" \o ToString(prestigeLevel), level |-> 0,
                         rewardType |-> "SPECIAL", amount |-> 0, claimed |-> TRUE]}
                /\ es' = [es EXCEPT
                             !.passiveMaxEnergyBonus = 10 * prestigeLevel,
                             !.maxEnergy = Pt(prestigeMaxEnergy(prestigeLevel)),
                             !.currentEnergy = Pt(prestigeMaxEnergy(prestigeLevel))]
                /\ last' = Completed("prestigeUser", "ok", 0, user)
    /\ UNCHANGED <<now, pc, loc, acct, calc, events, avgLevel, inv, market, quest>>

\* Variant: the reset extends to totalLifetimeExperience.
PrestigeUser_ResetsLifetimeXp ==
    /\ calls < MaxCalls
    /\ calls' = calls + 1
    /\ IF user.level < MIN_PRESTIGE_LEVEL
       THEN /\ last' = Completed("prestigeUser", "BelowMinimumLevel", 0, user)
            /\ UNCHANGED <<user, es, rewards>>
       ELSE LET prestigeLevel == user.prestigeLevel + 1
            IN  /\ user' = [user EXCEPT
                               !.level = 1,
                               !.experience = 0,
                               !.totalLifetimeExperience = 0,
                               !.prestigeLevel = prestigeLevel,
                               !.prestigePoints = @ + (user.level \div 10),
                               !.updatedAt = now]
                /\ rewards' = rewards \cup
                       {[id |-> "prestige-" \o ToString(prestigeLevel), level |-> 0,
                         rewardType |-> "SPECIAL", amount |-> 0, claimed |-> TRUE]}
                /\ es' = [es EXCEPT
                             !.passiveMaxEnergyBonus = 10 * prestigeLevel,
                             !.maxEnergy = Pt(prestigeMaxEnergy(prestigeLevel)),
                             !.currentEnergy = Pt(prestigeMaxEnergy(prestigeLevel))]
                /\ last' = Completed("prestigeUser", "ok", 0, user)
    /\ UNCHANGED <<now, pc, loc, acct, calc, events, avgLevel, inv, market, quest>>

\* prestigeUser; passiveMaxEnergyBonus in hundredths.
PrestigeUser ==
    /\ calls < MaxCalls
    /\ calls' = calls + 1
    /\ IF user.level < MIN_PRESTIGE_LEVEL
       THEN /\ last' = Completed("prestigeUser", "BelowMinimumLevel", 0, user)
            /\ UNCHANGED <<user, es, rewards>>
       ELSE LET prestigeLevel == user.prestigeLevel + 1
            IN  /\ user' = [user EXCEPT
                               !.level = 1,
                               !.experience = 0,
                               !.prestigeLevel = prestigeLevel,
                               !.prestigePoints = @ + (user.level \div 10),
                               !.updatedAt = now]
                /\ rewards' = rewards \cup
                       {[id |-> "prestige-" \o ToString(prestigeLevel), level |-> 0,
                         rewardType |-> "SPECIAL", amount |-> 0, claimed |-> TRUE]}
                /\ es' = [es EXCEPT
                             !.passiveMaxEnergyBonus = 10 * prestigeLevel,
                             !.maxEnergy = Pt(prestigeMaxEnergy(prestigeLevel)),
                             !.currentEnergy = Pt(prestigeMaxEnergy(prestigeLevel))]
                /\ last' = Completed("prestigeUser", "ok", 0, user)
    /\ UNCHANGED <<now, pc, loc, acct, calc, events, avgLevel, inv, market, quest>>

XpInit ==
    /\ now = 0
    /\ \E n \in GrownCalls :
          /\ user = Grown(n).user
          /\ rewards = Grown(n).rewards
    /\ es = CHOOSE e \in InitEnergyStates : TRUE
    /\ pc = [p \in Procs |-> "idle"]
    /\ loc = [p \in Procs |-> IdleLoc]
    /\ calls = 0
    /\ last = NoCall
    /\ acct = [debited |-> 0, granted |-> 0]
    /\ calc = NoCalc
    /\ events = {}
    /\ avgLevel = 1
    /\ inv = NoInv
    /\ market = NoMarket
    /\ quest = NoQuest

XpNext ==
    \/ \E p \in Procs, baseAmount \in XpAmounts : AddExperienceRead(p, baseAmount)
    \/ \E p \in Procs : AddExperienceUpdate(p)
    \/ \E p \in Procs : ProcessMilestoneRewards(p)
    \/ \E p \in Procs : MilestoneFind(p)
    \/ \E p \in Procs : MilestoneCreate(p)
    \/ \E rewardId \in ClaimIds : ClaimMilestoneReward(rewardId)
    \/ PrestigeUser

XpSpec == XpInit /\ [][XpNext]_vars

----------------------------------------------------------------------------
(* Experience grants under multiplier events and the catch-up bonus *)

\* The acting player's id.
Player == "player"

\* XpMultiplierEvent rows an administrator may have stored: multiplier in
\* tenths, startTime and endTime in minutes, userIds and zoneIds the sets of
\* the two scope columns, empty when the column is null.
EventCatalogue ==
    { [id |-> "double", multiplier |-> 20, startTime |-> 0, endTime |-> 3,
       userIds |-> {}, zoneIds |-> {}],
      [id |-> "triple", multiplier |-> 30, startTime |-> 1, endTime |-> 2,
       userIds |-> {}, zoneIds |-> {}],
      [id |-> "half", multiplier |-> 5, startTime |-> 2, endTime |-> 3,
       userIds |-> {}, zoneIds |-> {}],
      [id |-> "rival", multiplier |-> 40, startTime |-> 0, endTime |-> 3,
       userIds |-> {"rival"}, zoneIds |-> {}] }

\* Stored values of the average level.
AverageLevels == {1, 2, 7, 14}

\* baseAmount arguments of addExperience.
MultAmounts == {1, 15}

\* The players at the start: new, and after 3 calls addExperience(userId, 120).
MultGrownCalls == {0, 3}

MultInit ==
    /\ now = 0
    /\ \E n \in MultGrownCalls :
          /\ user = Grown(n).user
          /\ rewards = Grown(n).rewards
    /\ es = CHOOSE e \in InitEnergyStates : TRUE
    /\ pc = [p \in Procs |-> "idle"]
    /\ loc = [p \in Procs |-> IdleLoc]
    /\ calls = 0
    /\ last = NoCall
    /\ acct = [debited |-> 0, granted |-> 0]
    /\ calc = NoCalc
    /\ events \in SUBSET EventCatalogue
    /\ avgLevel \in AverageLevels
    /\ inv = NoInv
    /\ market = NoMarket
    /\ quest = NoQuest

MultNext ==
    \/ Tick
    \/ \E baseAmount \in MultAmounts : AddExperienceRead("work", baseAmount)
    \/ AddExperienceUpdate("work")
    \/ MilestoneFind("work")
    \/ MilestoneCreate("work")

MultSpec == MultInit /\ [][MultNext]_vars

----------------------------------------------------------------------------
(* Levels over a player's lifetime: grants, prestige and setLevel *)

\* level arguments of setLevel.
SetLevels == {0, 2, 101}

\* The players at the start: new, and after 3, 48 and 99 calls
\* addExperience(userId, 120), i.e. at levels 1, 4, 49 and 100.
LevelGrownCalls == {0, 3, 48, 99}

\* setLevel: a level below 1 is rejected, any other is stored as given.
SetLevel(level) ==
    /\ calls < MaxCalls
    /\ calls' = calls + 1
    /\ IF level < 1
       THEN /\ last' = Completed("setLevel", "failed", level, user)
            /\ UNCHANGED user
       ELSE /\ last' = Completed("setLevel", "ok", level, user)
            /\ user' = [user EXCEPT !.level = level, !.updatedAt = now]
    /\ UNCHANGED <<now, es, pc, loc, acct, calc, rewards, events, avgLevel, inv, market, quest>>

LevelInit ==
    /\ now = 0
    /\ \E n \in LevelGrownCalls :
          /\ user = Grown(n).user
          /\ rewards = Grown(n).rewards
    /\ es = CHOOSE e \in InitEnergyStates : TRUE
    /\ pc = [p \in Procs |-> "idle"]
    /\ loc = [p \in Procs |-> IdleLoc]
    /\ calls = 0
    /\ last = NoCall
    /\ acct = [debited |-> 0, granted |-> 0]
    /\ calc = NoCalc
    /\ events = {}
    /\ avgLevel = 1
    /\ inv = NoInv
    /\ market = NoMarket
    /\ quest = NoQuest

LevelNext ==
    \/ XpNext
    \/ \E level \in SetLevels : SetLevel(level)

LevelSpec == LevelInit /\ [][LevelNext]_vars

----------------------------------------------------------------------------
(* Stand-alone ExperienceCalculator calculations over enumerated arguments *)

\* The levels whose requirement xpRequiredTable holds.
TableLevels == 1 .. Len(xpRequiredTable)

\* totalXp arguments: below 0, 0, the design document's 250, and the first
\* XP of every level of the table with the XP just before it.
XpInputs ==
    {-5, 0, 1, 250}
        \cup {getXpForLevel(l) - d : l \in TableLevels \ {1}, d \in {0, 1}}

CurveInputs ==
    {[fn |-> "xpArgs", xp |-> x] : x \in XpInputs}
        \cup {[fn |-> "levelArgs", level |-> l] : l \in {-1, 0} \cup TableLevels}
        \cup {[fn |-> "requiredArgs", level |-> l] :
                 l \in TableLevels \cup {maxLevel, maxLevel + 1}}

CurveInit ==
    /\ now = 0
    /\ user = InitUser
    /\ es = CHOOSE e \in InitEnergyStates : TRUE
    /\ pc = [p \in Procs |-> "idle"]
    /\ loc = [p \in Procs |-> IdleLoc]
    /\ calls = 0
    /\ last = NoCall
    /\ acct = [debited |-> 0, granted |-> 0]
    /\ calc \in CurveInputs
    /\ rewards = {}
    /\ events = {}
    /\ avgLevel = 1
    /\ inv = NoInv
    /\ market = NoMarket
    /\ quest = NoQuest

CalcLevelFromXp ==
    /\ calc.fn = "xpArgs"
    /\ calc' = [fn |-> "levelFromXp", args |-> calc, out |-> getLevelFromXp(calc.xp)]
    /\ UNCHANGED <<now, user, es, pc, loc, calls, last, acct, rewards, events, avgLevel, inv, market, quest>>

CalcXpForLevel ==
    /\ calc.fn = "levelArgs"
    /\ calc' = [fn |-> "xpForLevel", args |-> calc, out |-> getXpForLevel(calc.level)]
    /\ UNCHANGED <<now, user, es, pc, loc, calls, last, acct, rewards, events, avgLevel, inv, market, quest>>

CalcXpRequired ==
    /\ calc.fn = "requiredArgs"
    /\ calc' = [fn |-> "xpRequired", args |-> calc,
                out |-> getXpRequiredForNextLevel(calc.level)]
    /\ UNCHANGED <<now, user, es, pc, loc, calls, last, acct, rewards, events, avgLevel, inv, market, quest>>

CurveNext == CalcLevelFromXp \/ CalcXpForLevel \/ CalcXpRequired

CurveSpec == CurveInit /\ [][CurveNext]_vars

----------------------------------------------------------------------------
(* Writes to the player row that do not concern energy *)

\* db.user.update({ data: { lastActive } }); the lastActive column is not
\* carried here.  The row's updatedAt is `DateTime @updatedAt` in the schema,
\* so every update stamps it.
dbUserUpdate(row, t) == [row EXCEPT !.updatedAt = t]

\* amount arguments of addCurrency.
CurrencyAmounts == {0, 50}

\* The player at the start: after 3 calls addExperience(userId, 120), at
\* level 4.
ActivityGrownCalls == {3}

\* baseAmount arguments of addExperience, amount arguments of consumeEnergy.
ActivityXpAmounts == {120}
ActivityConsumeAmounts == {Pt(2), Pt(60)}

\* GameClient.updateUserActivity, called in front of every player action.
UpdateUserActivity ==
    /\ calls < MaxCalls
    /\ calls' = calls + 1
    /\ user' = dbUserUpdate(user, now)
    /\ last' = Completed("updateUserActivity", "ok", 0, user)
    /\ UNCHANGED <<now, es, pc, loc, acct, calc, rewards, events, avgLevel, inv, market, quest>>

\* addCurrency.
AddCurrency(amount) ==
    /\ calls < MaxCalls
    /\ calls' = calls + 1
    /\ IF amount <= 0
       THEN /\ last' = Completed("addCurrency", "InvalidAmount", amount, user)
            /\ UNCHANGED user
       ELSE /\ user' = dbUserUpdateCurrency(user, amount, now)
            /\ last' = Completed("addCurrency", "ok", amount, user)
    /\ UNCHANGED <<now, es, pc, loc, acct, calc, rewards, events, avgLevel, inv, market, quest>>

ActivityInit ==
    /\ now = 0
    /\ \E n \in ActivityGrownCalls :
          /\ user = Grown(n).user
          /\ rewards = Grown(n).rewards
    /\ es = CHOOSE e \in InitEnergyStates : TRUE
    /\ pc = [p \in Procs |-> "idle"]
    /\ loc = [p \in Procs |-> IdleLoc]
    /\ calls = 0
    /\ last = NoCall
    /\ acct = [debited |-> 0, granted |-> 0]
    /\ calc = NoCalc
    /\ events = {}
    /\ avgLevel = 1
    /\ inv = NoInv
    /\ market = NoMarket
    /\ quest = NoQuest

ActivityNext ==
    \/ Tick
    \/ UpdateUserActivity
    \/ \E amount \in CurrencyAmounts : AddCurrency(amount)
    \/ \E baseAmount \in ActivityXpAmounts : AddExperienceRead("work", baseAmount)
    \/ AddExperienceUpdate("work")
    \/ MilestoneFind("work")
    \/ MilestoneCreate("work")
    \/ \E amount \in ActivityConsumeAmounts : ConsumeRead("craft", amount)
    \/ ConsumeWrite("craft")

ActivitySpec == ActivityInit /\ [][ActivityNext]_vars

----------------------------------------------------------------------------
(* ActionHandler.performWork, from its checks to its return *)

\* Adjusted energy costs of the jobs, the job's XP after the skill bonus,
\* and the quantities the reward roll can yield.
JobCosts == {Pt(2), Pt(60)}
JobXp == {120}
JobDrops == {0, 1}

\* The tool instance (durability 2) and the empty inventory slot.
InitInv == [durability |-> 2, quantity |-> 0]

\* InventoryService.updateToolDurability: Math.max(0, durability + change);
\* an instance whose durability reaches 0 is deleted, and a deleted
\* instance is carried as durability 0.
updateToolDurability(row, change) ==
    [row EXCEPT !.durability = Max(0, @ + change)]

\* InventoryService.addItem on a stackable item.
addItem(row, quantity) == [row EXCEPT !.quantity = @ + quantity]

\* What a performWork call has written so far.
WorkLoc(energyCost, row, toolInstanceId) ==
    [amount |-> energyCost, row |-> row, toolInstanceId |-> toolInstanceId,
     durabilityChange |-> 0, energyConsumed |-> 0, xpGained |-> 0,
     itemsGained |-> 0]

WorkCompleted(l, result) ==
    [op |-> "performWork", result |-> result, at |-> now, amount |-> l.amount,
     read |-> l.row, durabilityChange |-> l.durabilityChange,
     energyConsumed |-> l.energyConsumed, xpGained |-> l.xpGained,
     itemsGained |-> l.itemsGained]

\* performWork up to `if (user.currentEnergy < energyCost)`; toolInstanceId
\* is TRUE when the caller names the tool.
PerformWork(p, energyCost, toolInstanceId) ==
    /\ pc[p] = "idle"
    /\ calls < MaxCalls
    /\ calls' = calls + 1
    /\ IF notEnoughEnergy(user, energyCost, now)
       THEN /\ last' = WorkCompleted(WorkLoc(energyCost, user, toolInstanceId),
                                     "NotEnoughEnergy")
            /\ UNCHANGED <<pc, loc>>
       ELSE /\ pc' = [pc EXCEPT ![p] = "workTool"]
            /\ loc' = [loc EXCEPT ![p] = WorkLoc(energyCost, user, toolInstanceId)]
            /\ UNCHANGED last
    /\ UNCHANGED <<now, user, es, acct, calc, rewards, events, avgLevel, inv, market, quest>>

\* The tool usage logic: the instance is looked up and checked, and
\* updateToolDurability(toolInstanceId, -1) is awaited, in front of the
\* transaction.
WorkTool(p) ==
    /\ pc[p] = "workTool"
    /\ IF loc[p].toolInstanceId /\ inv.durability <= 0
       THEN /\ last' = WorkCompleted(loc[p], "ToolNotUsable")
            /\ pc' = [pc EXCEPT ![p] = "idle"]
            /\ loc' = [loc EXCEPT ![p] = IdleLoc]
            /\ UNCHANGED inv
       ELSE /\ inv' = IF loc[p].toolInstanceId
                      THEN updateToolDurability(inv, -1)
                      ELSE inv
            /\ loc' = [loc EXCEPT ![p].durabilityChange =
                          IF loc[p].toolInstanceId THEN -1 ELSE 0]
            /\ pc' = [pc EXCEPT ![p] = "workConsume"]
            /\ UNCHANGED last
    /\ UNCHANGED <<now, user, es, calls, acct, calc, rewards, events, avgLevel, market, quest>>

\* `await this.userService.consumeEnergy(userId, energyCost)` inside the
\* callback of db.$transaction: the call goes through this.db, not through
\* tx; its exception reaches the catch of performWork.
WorkConsume(p) ==
    /\ pc[p] = "workConsume"
    /\ LET r == consumeEnergy(user, loc[p].amount, now)
       IN  IF r.result = "ok"
           THEN /\ user' = dbUserUpdateEnergy(user, r.currentEnergy, now)
                /\ acct' = [acct EXCEPT !.debited = @ + loc[p].amount]
                /\ loc' = [loc EXCEPT ![p].energyConsumed = loc[p].amount]
                /\ pc' = [pc EXCEPT ![p] = "workXp"]
                /\ UNCHANGED last
           ELSE /\ last' = WorkCompleted(loc[p], r.result)
                /\ pc' = [pc EXCEPT ![p] = "idle"]
                /\ loc' = [loc EXCEPT ![p] = IdleLoc]
                /\ UNCHANGED <<user, acct>>
    /\ UNCHANGED <<now, es, calls, calc, rewards, events, avgLevel, inv, market, quest>>

\* `await this.userService.addExperience(userId, xpGained)`: the update of
\* the row, then processMilestoneRewards after a level-up, whose exception
\* reaches the catch of performWork.
WorkExperience(p, xpGained) ==
    /\ pc[p] = "workXp"
    /\ LET m == getCurrentXpMultipliers(events, avgLevel, user.level, now)
           x == addExperience(user, xpGained, m.totalMultiplier)
           r == IF x.leveledUp
                THEN processMilestoneRewards(rewards, x.newLevel)
                ELSE [result |-> "ok", table |-> rewards]
           l == [loc[p] EXCEPT !.xpGained = x.actualXp]
       IN  /\ user' = dbUserUpdateExperience(user, x, now)
           /\ rewards' = r.table
           /\ IF r.result = "ok"
              THEN /\ loc' = [loc EXCEPT ![p] = l]
                   /\ pc' = [pc EXCEPT ![p] = "workItems"]
                   /\ UNCHANGED last
              ELSE /\ last' = WorkCompleted(l, "failed")
                   /\ pc' = [pc EXCEPT ![p] = "idle"]
                   /\ loc' = [loc EXCEPT ![p] = IdleLoc]
    /\ UNCHANGED <<now, es, calls, acct, calc, events, avgLevel, inv, market, quest>>

\* The reward roll and inventoryService.addItem for a quantity above 0; the
\* call returns success.
WorkItems(p, quantity) ==
    /\ pc[p] = "workItems"
    /\ inv' = IF quantity > 0 THEN addItem(inv, quantity) ELSE inv
    /\ last' = WorkCompleted([loc[p] EXCEPT !.itemsGained = quantity], "ok")
    /\ pc' = [pc EXCEPT ![p] = "idle"]
    /\ loc' = [loc EXCEPT ![p] = IdleLoc]
    /\ UNCHANGED <<now, user, es, calls, acct, calc, rewards, events, avgLevel, market, quest>>

WorkInit ==
    /\ now = 0
    /\ user = InitUser
    /\ es = CHOOSE e \in InitEnergyStates : TRUE
    /\ pc = [p \in Procs |-> "idle"]
    /\ loc = [p \in Procs |-> IdleLoc]
    /\ calls = 0
    /\ last = NoCall
    /\ acct = [debited |-> 0, granted |-> 0]
    /\ calc = NoCalc
    /\ rewards = {}
    /\ events = {}
    /\ avgLevel = 1
    /\ inv = InitInv
    /\ market = NoMarket
    /\ quest = NoQuest

WorkNext ==
    \/ \E p \in Procs, energyCost \in JobCosts, toolInstanceId \in BOOLEAN :
           PerformWork(p, energyCost, toolInstanceId)
    \/ \E p \in Procs : WorkTool(p)
    \/ \E p \in Procs : WorkConsume(p)
    \/ \E p \in Procs, xpGained \in JobXp : WorkExperience(p, xpGained)
    \/ \E p \in Procs, quantity \in JobDrops : WorkItems(p, quantity)

WorkSpec == WorkInit /\ [][WorkNext]_vars

----------------------------------------------------------------------------
(* claimMilestoneReward, await by await, for two callers *)

\* The player at the start: after 9 calls addExperience(userId, 120), at
\* level 10 with the rewards of levels 5 and 10 unclaimed.
ClaimGrownCalls == {9}

ClaimLoc(rewardId, reward) ==
    [op |-> "claimMilestoneReward", rewardId |-> rewardId, reward |-> reward,
     energyState |-> es]

ClaimCompleted(l, result) ==
    [op |-> "claimMilestoneReward", result |-> result, at |-> now,
     rewardId |-> l.rewardId, reward |-> l.reward]

\* claimMilestoneReward up to the checks on the row findUnique returned; a
\* missing or claimed reward throws, and the catch returns false.
ClaimRead(p, rewardId) ==
    /\ pc[p] = "idle"
    /\ calls < MaxCalls
    /\ calls' = calls + 1
    /\ IF \E r \in rewards : r.id = rewardId
       THEN LET reward == CHOOSE r \in rewards : r.id = rewardId
            IN  IF reward.claimed
                THEN /\ last' = ClaimCompleted(ClaimLoc(rewardId, reward), "failed")
                     /\ UNCHANGED <<pc, loc>>
                ELSE /\ pc' = [pc EXCEPT ![p] = "claimPay"]
                     /\ loc' = [loc EXCEPT ![p] = ClaimLoc(rewardId, reward)]
                     /\ UNCHANGED last
       ELSE /\ last' = [op |-> "claimMilestoneReward", result |-> "failed",
                        at |-> now, rewardId |-> rewardId]
            /\ UNCHANGED <<pc, loc>>
    /\ UNCHANGED <<now, user, es, acct, calc, rewards, events, avgLevel, inv, market, quest>>

\* The switch on reward.rewardType: addCurrency for CURRENCY, the findUnique
\* of the energy state for MAX_ENERGY; the other types write to tables that
\* are not carried here.
ClaimPay(p) ==
    /\ pc[p] = "claimPay"
    /\ LET reward == loc[p].reward
       IN  IF reward.rewardType = "CURRENCY" /\ reward.amount # 0
           THEN /\ user' = dbUserUpdateCurrency(user, reward.amount, now)
                /\ pc' = [pc EXCEPT ![p] = "claimMark"]
                /\ UNCHANGED loc
           ELSE IF reward.rewardType = "MAX_ENERGY" /\ reward.amount # 0
           THEN /\ loc' = [loc EXCEPT ![p].energyState = es]
                /\ pc' = [pc EXCEPT ![p] = "claimEnergy"]
                /\ UNCHANGED user
           ELSE /\ pc' = [pc EXCEPT ![p] = "claimMark"]
                /\ UNCHANGED <<user, loc>>
    /\ UNCHANGED <<now, es, calls, last, acct, calc, rewards, events, avgLevel, inv, market, quest>>

\* db.userEnergyState.update({ data: { maxEnergy: energyState.maxEnergy +
\* reward.amount } }) with the energy state read before.
ClaimEnergyUpdate(p) ==
    /\ pc[p] = "claimEnergy"
    /\ es' = [es EXCEPT !.maxEnergy =
                 loc[p].energyState.maxEnergy + Pt(loc[p].reward.amount)]
    /\ pc' = [pc EXCEPT ![p] = "claimMark"]
    /\ UNCHANGED <<now, user, loc, calls, last, acct, calc, rewards, events, avgLevel, inv, market, quest>>

\* db.milestoneReward.update({ where: { id }, data: { claimed: true } }) and
\* the return of true.
ClaimMark(p) ==
    /\ pc[p] = "claimMark"
    /\ rewards' = {IF r.id = loc[p].rewardId THEN [r EXCEPT !.claimed = TRUE] ELSE r :
                      r \in rewards}
    /\ last' = ClaimCompleted(loc[p], "ok")
    /\ pc' = [pc EXCEPT ![p] = "idle"]
    /\ loc' = [loc EXCEPT ![p] = IdleLoc]
    /\ UNCHANGED <<now, user, es, calls, acct, calc, events, avgLevel, inv, market, quest>>

ClaimInit ==
    /\ now = 0
    /\ \E n \in ClaimGrownCalls :
          /\ user = Grown(n).user
          /\ rewards = Grown(n).rewards
    /\ es = CHOOSE e \in InitEnergyStates : TRUE
    /\ pc = [p \in Procs |-> "idle"]
    /\ loc = [p \in Procs |-> IdleLoc]
    /\ calls = 0
    /\ last = NoCall
    /\ acct = [debited |-> 0, granted |-> 0]
    /\ calc = NoCalc
    /\ events = {}
    /\ avgLevel = 1
    /\ inv = NoInv
    /\ market = NoMarket
    /\ quest = NoQuest

ClaimNext ==
    \/ Tick
    \/ \E p \in Procs, rewardId \in ClaimIds : ClaimRead(p, rewardId)
    \/ \E p \in Procs : ClaimPay(p)
    \/ \E p \in Procs : ClaimEnergyUpdate(p)
    \/ \E p \in Procs : ClaimMark(p)

ClaimSpec == ClaimInit /\ [][ClaimNext]_vars

----------------------------------------------------------------------------
(* ExperienceCalculator: multipliers and calculateActualXpEarned *)

\* An argument the caller leaves out.
Undefined == "undefined"

\* The product of the multipliers (tenths) of a set of events, as a
\* fraction num / den.
RECURSIVE multiplierProduct(_)
multiplierProduct(rows) ==
    IF rows = {}
    THEN [num |-> 1, den |-> 1]
    ELSE LET e == CHOOSE x \in rows : TRUE
             rest == multiplierProduct(rows \ {e})
         IN  [num |-> e.multiplier * rest.num, den |-> 10 * rest.den]

\* getActiveXpMultiplier at time t, with rows the registered events: the
\* activeMultipliers getter drops the events whose endTime is not after t,
\* and the multipliers of the events in scope are multiplied.
getActiveXpMultiplier(rows, userId, zoneId, t) ==
    LET activeEvents == {e \in rows : e.endTime > t}
        appliesToUser(e) == e.userIds = {} \/ userId \in e.userIds
        appliesToZone(e) == e.zoneIds = {} \/ zoneId \in e.zoneIds
    IN  multiplierProduct(
            {e \in activeEvents : /\ (userId = Undefined \/ appliesToUser(e))
                                  /\ (zoneId = Undefined \/ appliesToZone(e))})

\* getCatchupMultiplier in hundredths; catchupThreshold 5,
\* maxCatchupMultiplier 1.5.
getCatchupMultiplier(avg, userLevel) ==
    IF userLevel >= avg
    THEN 100
    ELSE 100 + (Min(avg - userLevel, 5) * 50) \div 5

\* Pairs <<2 * baseXp * eventMultiplier, catchupMultiplier>> whose product
\* in double arithmetic lies just below the exact (integer) product:
\* 45 * 1.4 is 62.99999999999999.
shortCatchupProducts == { <<90, 140>>, <<180, 140>>, <<360, 140>>, <<720, 140>> }

\* calculateActualXpEarned: Math.floor(baseXp * eventMultiplier *
\* catchupMultiplier).
calculateActualXpEarned(rows, avg, baseXp, userLevel, userId, zoneId, t) ==
    LET eventMultiplier == getActiveXpMultiplier(rows, userId, zoneId, t)
        catchupMultiplier == getCatchupMultiplier(avg, userLevel)
        exact == (baseXp * eventMultiplier.num * catchupMultiplier)
                     \div (eventMultiplier.den * 100)
        twice == (2 * baseXp * eventMultiplier.num) \div eventMultiplier.den
        totalXp == IF <<twice, catchupMultiplier>> \in shortCatchupProducts
                   THEN exact - 1
                   ELSE exact
    IN  [totalXp |-> totalXp, baseXp |-> baseXp,
         eventMultiplier |-> eventMultiplier,
         catchupMultiplier |-> catchupMultiplier]

----------------------------------------------------------------------------
(* MarketplaceService.purchaseListing, await by await, for two callers *)

Seller == "seller"

Buyers == {"alice", "bob"}

\* quantity arguments of purchaseListing.
PurchaseQuantities == {0, 1, 2}

\* A listing of 2 items at a price of 10 each, and the currency of the
\* traders; no buyer holds the item yet.
InitListing == [quantity |-> 2, price |-> 10, status |-> "ACTIVE"]

InitCurrency == [u \in Buyers \cup {Seller} |-> IF u = Seller THEN 0 ELSE 20]

\* The listing row after marketListing.delete: findUnique returns null.
NoListing == [quantity |-> 0, price |-> 0, status |-> "DELETED"]

InitMarket ==
    [listing |-> InitListing, currency |-> InitCurrency,
     items |-> [u \in Buyers |-> 0]]

\* What a purchaseListing call has read and written so far.
PurchaseLoc(buyerId, quantity) ==
    [op |-> "purchaseListing", buyerId |-> buyerId, quantity |-> quantity,
     listing |-> market.listing, totalCost |-> market.listing.price * quantity,
     charged |-> 0, credited |-> 0, delivered |-> 0]

PurchaseCompleted(l, result) ==
    [op |-> "purchaseListing", result |-> result, buyerId |-> l.buyerId,
     quantity |-> l.quantity, listing |-> l.listing, charged |-> l.charged,
     credited |-> l.credited, delivered |-> l.delivered]

PurchaseFails(p, l, result) ==
    /\ last' = PurchaseCompleted(l, result)
    /\ pc' = [pc EXCEPT ![p] = "idle"]
    /\ loc' = [loc EXCEPT ![p] = IdleLoc]

\* purchaseListing from getListingById to the calculation of totalCost.
PurchaseRead(p, buyerId, quantity) ==
    /\ pc[p] = "idle"
    /\ calls < MaxCalls
    /\ calls' = calls + 1
    /\ LET l == PurchaseLoc(buyerId, quantity)
       IN  IF market.listing.status = "DELETED"
           THEN PurchaseFails(p, l, "NotFound")
           ELSE IF market.listing.status # "ACTIVE"
           THEN PurchaseFails(p, l, "NotActive")
           ELSE IF quantity <= 0
           THEN PurchaseFails(p, l, "InvalidQuantity")
           ELSE IF quantity > market.listing.quantity
           THEN PurchaseFails(p, l, "NotAvailable")
           ELSE /\ pc' = [pc EXCEPT ![p] = "buyCheck"]
                /\ loc' = [loc EXCEPT ![p] = l]
                /\ UNCHANGED last
    /\ UNCHANGED <<now, user, es, acct, calc, rewards, events, avgLevel, inv, market, quest>>

\* `if (buyer.currency < totalCost)` on the row getUserById returned.
PurchaseCheckBuyer(p) ==
    /\ pc[p] = "buyCheck"
    /\ IF market.currency[loc[p].buyerId] < loc[p].totalCost
       THEN PurchaseFails(p, loc[p], "NotEnoughCurrency")
       ELSE /\ pc' = [pc EXCEPT ![p] = "buyRemove"]
            /\ UNCHANGED <<loc, last>>
    /\ UNCHANGED <<now, user, es, calls, acct, calc, rewards, events, avgLevel, inv, market, quest>>

\* removeCurrency up to its check of the row getUserById returned; its
\* exception reaches the catch of purchaseListing.
PurchaseRemoveCheck(p) ==
    /\ pc[p] = "buyRemove"
    /\ IF market.currency[loc[p].buyerId] < loc[p].totalCost
       THEN PurchaseFails(p, loc[p], "InsufficientFunds")
       ELSE /\ pc' = [pc EXCEPT ![p] = "buyDecrement"]
            /\ UNCHANGED <<loc, last>>
    /\ UNCHANGED <<now, user, es, calls, acct, calc, rewards, events, avgLevel, inv, market, quest>>

\* removeCurrency: db.user.update({ data: { currency: { decrement } } }).
PurchaseDecrement(p) ==
    /\ pc[p] = "buyDecrement"
    /\ market' = [market EXCEPT !.currency[loc[p].buyerId] = @ - loc[p].totalCost]
    /\ loc' = [loc EXCEPT ![p].charged = loc[p].totalCost]
    /\ pc' = [pc EXCEPT ![p] = "buyCredit"]
    /\ UNCHANGED <<now, user, es, calls, last, acct, calc, rewards, events, avgLevel, inv, quest>>

\* addCurrency(listing.sellerId, totalCost).
PurchaseCredit(p) ==
    /\ pc[p] = "buyCredit"
    /\ market' = [market EXCEPT !.currency[Seller] = @ + loc[p].totalCost]
    /\ loc' = [loc EXCEPT ![p].credited = loc[p].totalCost]
    /\ pc' = [pc EXCEPT ![p] = "buyItem"]
    /\ UNCHANGED <<now, user, es, calls, last, acct, calc, rewards, events, avgLevel, inv, quest>>

\* inventoryService.addItem(buyerId, listing.itemId, purchaseQuantity).
PurchaseAddItem(p) ==
    /\ pc[p] = "buyItem"
    /\ market' = [market EXCEPT !.items[loc[p].buyerId] = @ + loc[p].quantity]
    /\ loc' = [loc EXCEPT ![p].delivered = loc[p].quantity]
    /\ pc' = [pc EXCEPT ![p] = "buyListing"]
    /\ UNCHANGED <<now, user, es, calls, last, acct, calc, rewards, events, avgLevel, inv, quest>>

\* tx.marketListing.delete when the whole quantity the call read is bought,
\* tx.marketListing.update({ quantity: listing.quantity - purchaseQuantity })
\* otherwise: both throw when the row is gone, which rolls back what was
\* issued through tx, i.e. nothing, and reaches the catch of purchaseListing.
PurchaseUpdateListing(p) ==
    /\ pc[p] = "buyListing"
    /\ IF market.listing.status = "DELETED"
       THEN /\ last' = PurchaseCompleted(loc[p], "failed")
            /\ UNCHANGED market
       ELSE /\ market' = [market EXCEPT !.listing =
                             IF loc[p].quantity = loc[p].listing.quantity
                             THEN NoListing
                             ELSE [@ EXCEPT !.quantity =
                                      loc[p].listing.quantity - loc[p].quantity]]
            /\ last' = PurchaseCompleted(loc[p], "ok")
    /\ pc' = [pc EXCEPT ![p] = "idle"]
    /\ loc' = [loc EXCEPT ![p] = IdleLoc]
    /\ UNCHANGED <<now, user, es, calls, acct, calc, rewards, events, avgLevel, inv, quest>>

MarketInit ==
    /\ now = 0
    /\ user = InitUser
    /\ es = CHOOSE e \in InitEnergyStates : TRUE
    /\ pc = [p \in Procs |-> "idle"]
    /\ loc = [p \in Procs |-> IdleLoc]
    /\ calls = 0
    /\ last = NoCall
    /\ acct = [debited |-> 0, granted |-> 0]
    /\ calc = NoCalc
    /\ rewards = {}
    /\ events = {}
    /\ avgLevel = 1
    /\ inv = NoInv
    /\ market = InitMarket
    /\ quest = NoQuest

MarketNext ==
    \/ \E p \in Procs, buyerId \in Buyers, quantity \in PurchaseQuantities :
           PurchaseRead(p, buyerId, quantity)
    \/ \E p \in Procs : PurchaseCheckBuyer(p)
    \/ \E p \in Procs : PurchaseRemoveCheck(p)
    \/ \E p \in Procs : PurchaseDecrement(p)
    \/ \E p \in Procs : PurchaseCredit(p)
    \/ \E p \in Procs : PurchaseAddItem(p)
    \/ \E p \in Procs : PurchaseUpdateListing(p)

MarketSpec == MarketInit /\ [][MarketNext]_vars

----------------------------------------------------------------------------
(* QuestService.completeQuest and abandonQuest, for two callers *)

\* The quest: one objective with targetAmount 2 and a currency reward.
Quest == [targetAmount |-> 2, rewards |-> [currency |-> 100]]

\* The player's UserQuestProgress row after acceptQuest, with the objective
\* at 1 and at 2.
InitQuests == { [status |-> "ACTIVE", progress |-> n] : n \in {1, 2} }

QuestLoc(op) == [op |-> op, questProgress |-> quest, granted |-> 0]

QuestCompleted(l, result) ==
    [op |-> l.op, result |-> result, questProgress |-> l.questProgress,
     granted |-> l.granted]

\* completeQuest up to the check of the objectives on the row findUnique
\* returned.
CompleteRead(p) ==
    /\ pc[p] = "idle"
    /\ calls < MaxCalls
    /\ calls' = calls + 1
    /\ LET l == QuestLoc("completeQuest")
       IN  IF quest.status = "none"
           THEN /\ last' = QuestCompleted(l, "NotAccepted")
                /\ UNCHANGED <<pc, loc>>
           ELSE IF quest.status = "COMPLETED"
           THEN /\ last' = QuestCompleted(l, "AlreadyCompleted")
                /\ UNCHANGED <<pc, loc>>
           ELSE IF ~(quest.progress >= Quest.targetAmount)
           THEN /\ last' = QuestCompleted(l, "ObjectivesIncomplete")
                /\ UNCHANGED <<pc, loc>>
           ELSE /\ pc' = [pc EXCEPT ![p] = "questReward"]
                /\ loc' = [loc EXCEPT ![p] = l]
                /\ UNCHANGED last
    /\ UNCHANGED <<now, user, es, acct, calc, rewards, events, avgLevel, inv, market, quest>>

\* The reward loop inside the callback of db.$transaction: addCurrency goes
\* through the service's own db client.
CompleteReward(p) ==
    /\ pc[p] = "questReward"
    /\ user' = dbUserUpdateCurrency(user, Quest.rewards.currency, now)
    /\ loc' = [loc EXCEPT ![p].granted = Quest.rewards.currency]
    /\ pc' = [pc EXCEPT ![p] = "questMark"]
    /\ UNCHANGED <<now, es, calls, last, acct, calc, rewards, events, avgLevel, inv, market, quest>>

\* tx.userQuestProgress.update({ where: { id }, data: { status: COMPLETED } }),
\* which throws when the row is gone, and the return.
CompleteMark(p) ==
    /\ pc[p] = "questMark"
    /\ IF quest.status = "none"
       THEN /\ last' = QuestCompleted(loc[p], "failed")
            /\ UNCHANGED quest
       ELSE /\ quest' = [quest EXCEPT !.status = "COMPLETED"]
            /\ last' = QuestCompleted(loc[p], "ok")
    /\ pc' = [pc EXCEPT ![p] = "idle"]
    /\ loc' = [loc EXCEPT ![p] = IdleLoc]
    /\ UNCHANGED <<now, user, es, calls, acct, calc, rewards, events, avgLevel, inv, market>>

\* abandonQuest, running alone from its findUnique to its delete.
AbandonQuest ==
    /\ calls < MaxCalls
    /\ calls' = calls + 1
    /\ IF quest.status = "none" \/ quest.status = "COMPLETED"
       THEN /\ last' = QuestCompleted(QuestLoc("abandonQuest"), "failed")
            /\ UNCHANGED quest
       ELSE /\ quest' = NoQuest
            /\ last' = QuestCompleted(QuestLoc("abandonQuest"), "ok")
    /\ UNCHANGED <<now, user, es, pc, loc, acct, calc, rewards, events, avgLevel, inv, market>>

QuestInit ==
    /\ now = 0
    /\ user = InitUser
    /\ es = CHOOSE e \in InitEnergyStates : TRUE
    /\ pc = [p \in Procs |-> "idle"]
    /\ loc = [p \in Procs |-> IdleLoc]
    /\ calls = 0
    /\ last = NoCall
    /\ acct = [debited |-> 0, granted |-> 0]
    /\ calc = NoCalc
    /\ rewards = {}
    /\ events = {}
    /\ avgLevel = 1
    /\ inv = NoInv
    /\ market = NoMarket
    /\ quest \in InitQuests

QuestNext ==
    \/ Tick
    \/ \E p \in Procs : CompleteRead(p)
    \/ \E p \in Procs : CompleteReward(p)
    \/ \E p \in Procs : CompleteMark(p)
    \/ AbandonQuest

QuestSpec == QuestInit /\ [][QuestNext]_vars

----------------------------------------------------------------------------
(* Properties *)

\* The regeneration a UserService call calculates from the row it read.
ReadReconciled ==
    calculateRegeneratedEnergy(last.read.currentEnergy, last.read.maxEnergy,
        last.read.updatedAt, defaultRegenMultiplier, FALSE, last.at)

InZone(state) == state.currentRecoveryZoneId # NoZone

\* The design's Reconcile of a UserEnergyState row at time t: the player's
\* regenMultiplier, times the zone multiplier while in a recovery zone.
Reconcile(state, maxEnergy, t) ==
    calculateRegeneratedEnergy(state.currentEnergy, maxEnergy,
        state.lastEnergyUpdate, state.regenRateMultiplier, InZone(state), t)

\* C1: concurrent consumeEnergy calls of one player are serializable: the
\* energy debited by the calls that succeeded never exceeds what was
\* available, i.e. what is stored plus what was debited is at most the
\* initial energy plus the grants plus the regeneration the elapsed minutes
\* can have produced; and with no grant and no minute elapsed, once the
\* calls have returned the stored energy is the initial energy minus the
\* successful debits.
C1_ConsumeSerializable ==
    /\ user.currentEnergy + acct.debited
          <= InitUser.currentEnergy + acct.granted + Pt(now * baseRegenerationRate)
    /\ ((\A p \in Procs : pc[p] = "idle") /\ now = 0 /\ acct.granted = 0)
          => user.currentEnergy = InitUser.currentEnergy - acct.debited

\* C2: consumeEnergy with amount <= 0 fails with InvalidAmount, with amount
\* above the regenerated energy it fails with InsufficientEnergy, and a
\* failed call leaves the stored row (currentEnergy and updatedAt) as it was.
C2_ConsumeFailures ==
    last.op = "consume" =>
        /\ (last.amount <= 0 => last.result = "InvalidAmount")
        /\ (last.amount > 0 /\ last.amount > ReadReconciled
                => last.result = "InsufficientEnergy")
        /\ (last.result \in {"InvalidAmount", "InsufficientEnergy"}
                => user = last.stored)

\* C2 witness: a call failed for lack of energy although the time since the
\* last update had regenerated some.
C2_Witness ==
    /\ last.op = "consume"
    /\ last.result = "InsufficientEnergy"
    /\ ReadReconciled > last.read.currentEnergy
    /\ last.read.updatedAt < last.at

\* C3: a successful consumeEnergy(amount) at time t stores the regenerated
\* energy minus amount and stamps the row with t; the stored energy is never
\* negative, and a later regeneration credits only minutes after t.
C3_ConsumeDebitsAndStamps ==
    /\ user.currentEnergy >= 0
    /\ (last.op = "consume" /\ last.result = "ok") =>
          /\ user.currentEnergy = ReadReconciled - last.amount
          /\ user.updatedAt = last.at
          /\ calculateRegeneratedEnergy(user.currentEnergy, user.maxEnergy,
                 user.updatedAt, defaultRegenMultiplier, FALSE, now)
               <= user.currentEnergy + Pt((now - last.at) * baseRegenerationRate)

\* C3 witness: a successful call credited regenerated minutes, and time has
\* passed since.
C3_Witness ==
    /\ last.op = "consume"
    /\ last.result = "ok"
    /\ ReadReconciled > last.read.currentEnergy
    /\ now > last.at

\* C4: the regenerated energy is at least the stored energy, also above
\* maxEnergy, and at most the effective cap.
C4_ReconcileBounds ==
    (calc.fn = "reconcile" /\ ~calc.threw) =>
        /\ calc.out >= calc.args.currentEnergy
        /\ calc.out <= getEffectiveEnergyCap(calc.args.currentEnergy,
                           calc.args.maxEnergy, calc.args.overflowExpiry, calc.args.t)

\* C4 witness: a regeneration calculated for a row above maxEnergy whose
\* last update lies ahead of the clock.
C4_Witness ==
    /\ calc.fn = "reconcile"
    /\ ~calc.threw
    /\ calc.args.currentEnergy > calc.args.maxEnergy
    /\ calc.args.lastEnergyUpdate > calc.args.t

\* C5: once a write of the energy state has happened after overflowExpiry
\* passed, the stored energy is at most maxEnergy.
C5_OverflowEndsAtFirstWrite ==
    (~IsNull(es.overflowExpiry) /\ es.lastEnergyUpdate > es.overflowExpiry[1])
        => es.currentEnergy <= es.maxEnergy

\* C6: while overflowExpiry lies in the future, a player with
\* max <= current < 1.5 * max keeps regenerating (up to 1.5 * max).
C6_RegenerationUnderOverflow ==
    ( /\ ~IsNull(es.overflowExpiry)
      /\ now <= es.overflowExpiry[1]
      /\ es.maxEnergy <= es.currentEnergy
      /\ es.currentEnergy < (es.maxEnergy * (100 + maxOverflowPercentage)) \div 100
      /\ now > es.lastEnergyUpdate )
        => Reconcile(es, es.maxEnergy, now) > es.currentEnergy

\* C7: entering and leaving a recovery zone store the energy regenerated
\* since lastEnergyUpdate under the regime in force before the call (zone
\* multiplier if the player was in a zone, factor 1 if not), stamped with
\* the time of the call.
C7_ZoneChangeSettlesPreviousRegime ==
    (last.op \in {"enter", "leave"} /\ last.result = "ok") =>
        /\ es.currentEnergy =
              Reconcile(last.es,
                  getMaxEnergyForLevel(last.read.level, last.es.passiveMaxEnergyBonus),
                  last.at)
        /\ es.lastEnergyUpdate = last.at

\* C8: the regeneration inside consumeEnergy and regenerateEnergy uses the
\* player's regenMultiplier, times 2.5 while the player is in a recovery zone.
C8_ReconcileUsesZoneMultiplier ==
    (last.op \in {"consume", "regenerate"} /\ last.result # "InvalidAmount") =>
        ReadReconciled =
            calculateRegeneratedEnergy(last.read.currentEnergy, last.read.maxEnergy,
                last.read.updatedAt, last.es.regenRateMultiplier, InZone(last.es),
                last.at)

\* C9: applyEnergyBoost yields min(current + amount, cap), cap = 1.5 * max
\* with allowOverflow and max without, and an expiry of now + duration
\* exactly when the result exceeds max; 50 + 80 of 100 with overflow and
\* duration 60 gives 130 and now + 60.
C9_BoostResult ==
    (calc.fn = "boost" /\ ~calc.threw) =>
        LET a == calc.args
            cap == IF a.allowOverflow THEN (3 * a.maxEnergy) \div 2 ELSE a.maxEnergy
        IN  /\ calc.out.energy = Min(a.currentEnergy + a.boostAmount, cap)
            /\ (calc.out.energy > a.maxEnergy
                    => calc.out.overflowExpiry = <<a.t + a.overflowDuration>>)
            /\ (calc.out.energy <= a.maxEnergy => IsNull(calc.out.overflowExpiry))
            /\ ( /\ a.currentEnergy = Pt(50)
                  /\ a.maxEnergy = Pt(100)
                  /\ a.boostAmount = Pt(80)
                  /\ a.allowOverflow
                  /\ a.overflowDuration = 60 )
                    => /\ calc.out.energy = Pt(130)
                       /\ calc.out.overflowExpiry = <<a.t + 60>>

\* C9 witness: the example of the design document.
C9_Witness ==
    /\ calc.fn = "boost"
    /\ ~calc.threw
    /\ calc.args.currentEnergy = Pt(50)
    /\ calc.args.maxEnergy = Pt(100)
    /\ calc.args.boostAmount = Pt(80)
    /\ calc.args.allowOverflow
    /\ calc.args.overflowDuration = 60
    /\ calc.out.energy = Pt(130)

\* C10: regenerateEnergy with amount >= 0 stores the regenerated energy plus
\* amount, capped at maxEnergy; with amount < 0 it fails with InvalidAmount
\* and leaves the stored row as it was.
C10_GrantClampsAtMax ==
    last.op = "regenerate" =>
        /\ (last.amount >= 0 =>
                /\ last.result = "ok"
                /\ user.currentEnergy =
                      Min(ReadReconciled + last.amount, last.read.maxEnergy))
        /\ (last.amount < 0 =>
                /\ last.result = "InvalidAmount"
                /\ user = last.stored)

\* C10 witness: a grant that the cap cut short.
C10_Witness ==
    /\ last.op = "regenerate"
    /\ last.result = "ok"
    /\ last.amount > 0
    /\ ReadReconciled + last.amount > last.read.maxEnergy
    /\ user.currentEnergy = last.read.maxEnergy

C12_LevelFromCumulativeXp ==
    (last.op = "addExperience" /\ last.wrote) =>
        LET cumulative == getXpForLevel(last.x.oldLevel) + last.row.experience
                              + last.x.actualXp
            newLevel == last.written.level
            experience == last.written.experience
        IN  /\ newLevel = getLevelFromXp(cumulative)
            /\ experience = cumulative - getXpForLevel(newLevel)
            /\ (newLevel < maxLevel =>
                    /\ 0 <= experience
                    /\ experience < getXpRequiredForNextLevel(newLevel))

\* C13: when an addExperience call that returned raised the level from old
\* to new, every milestone level in (old, new] has a reward row.
C13_MilestoneForEveryLevelCrossed ==
    (last.op = "addExperience" /\ last.result = "ok" /\ last.x.leveledUp) =>
        \A level \in (last.x.oldLevel + 1) .. last.x.newLevel :
            milestones(level) # << >> => \E r \in last.table : r.level = level

\* C14: no two reward rows share an id, and a milestone trigger for a level
\* whose reward rows exist, claimed or not, returns normally and leaves the
\* rows of that level as they were.
C14_MilestoneCreatedOnce ==
    /\ \A r1, r2 \in rewards : r1.id = r2.id => r1 = r2
    /\ ( /\ last.op \in {"addExperience", "processMilestoneRewards"}
         /\ last.existing # {} )
          => /\ last.result = "ok"
             /\ {r \in last.table : r.level = last.level} = last.existing

\* C15: an addExperience call that ended with an exception leaves level,
\* experience and totalLifetimeExperience as they were when it read the row.
C15_FailedGrantNotApplied ==
    (last.op = "addExperience" /\ last.result = "failed") =>
        /\ user.level = last.row.level
        /\ user.experience = last.row.experience
        /\ user.totalLifetimeExperience = last.row.totalLifetimeExperience

\* An event applies to a grant of the player at time t when t lies in its
\* window and its user scope, if it has one, contains the player; the callers
\* of addExperience name no zone, so a zone scope contains none.
applicable(e, player, t) ==
    /\ e.startTime <= t
    /\ t <= e.endTime
    /\ (e.userIds = {} \/ player \in e.userIds)
    /\ e.zoneIds = {}

\* C16: the event multiplier of a grant is the largest multiplier among the
\* events that apply to it, and 1.0 when none applies.
C16_EventMultiplierIsMax ==
    last.op = "addExperience" =>
        LET applying == {e \in events : applicable(e, Player, last.readAt)}
        IN  last.multipliers.eventMultiplier =
                IF applying = {} THEN 10 ELSE MaxOf({e.multiplier : e \in applying})

\* C17: events that do not apply to a grant (not started, ended, or scoped
\* to other players) do not change its event multiplier: it is the one
\* resolved from the applying events alone.
C17_OnlyApplicableEventsCount ==
    last.op = "addExperience" =>
        last.multipliers.eventMultiplier =
            getCurrentXpMultipliers(
                {e \in events : applicable(e, Player, last.readAt)},
                avgLevel, last.row.level, last.readAt).eventMultiplier

\* C18: the catch-up multiplier of a grant is 1.0 for a player at or above
\* the average level and 1.0 + 0.5 * min(deficit, 5) / 5 below it.
C18_CatchupLinearFromDeficitOne ==
    last.op = "addExperience" =>
        last.multipliers.catchupMultiplier =
            IF last.row.level >= avgLevel
            THEN 100
            ELSE 100 + (50 * Min(avgLevel - last.row.level, 5)) \div 5

C20_LifetimeXpNeverDecreases ==
    [][ /\ user'.totalLifetimeExperience >= user.totalLifetimeExperience
        /\ \A p \in Procs :
              (pc[p] = "xpUpdate" /\ pc'[p] # "xpUpdate")
                  => user'.totalLifetimeExperience
                        = user.totalLifetimeExperience + loc[p].x.actualXp
        /\ (user'.prestigeLevel # user.prestigeLevel
                => user'.totalLifetimeExperience = user.totalLifetimeExperience)
      ]_vars

\* C21: the stored level is always between 1 and maxLevel, and an
\* addExperience call for a player at maxLevel leaves the level at maxLevel.
C21_LevelWithinBounds ==
    /\ 1 <= user.level
    /\ user.level <= maxLevel
    /\ (last.op = "addExperience" /\ last.row.level >= maxLevel)
          => last.x.newLevel = last.row.level

\* C22: no step lowers the stored level except a prestige, which sets it to
\* 1 and raises prestigeLevel; and no step that keeps the level lowers the
\* stored experience.
C22_LevelNeverDecreases ==
    [][ /\ (user'.level < user.level
                => /\ user'.level = 1
                   /\ user'.prestigeLevel = user.prestigeLevel + 1)
        /\ (user'.level = user.level => user'.experience >= user.experience)
      ]_vars

\* A step that is a call of prestigeUser.
PrestigeStep ==
    /\ calls' = calls + 1
    /\ pc' = pc
    /\ last'.op = "prestigeUser"

\* C23: prestigeUser for a player below level 50 fails with
\* BelowMinimumLevel and leaves the User row, the energy state and the
\* milestone rewards as they were.
C23_PrestigeBelowMinimumChangesNothing ==
    [][ (PrestigeStep /\ user.level < 50)
            => /\ last'.result = "BelowMinimumLevel"
               /\ user' = user
               /\ es' = es
               /\ rewards' = rewards ]_vars

\* C23 witness: prestigeUser has failed for a player at level 49, and the
\* row is the one the call found.
C23_Witness ==
    /\ last.op = "prestigeUser"
    /\ last.result = "BelowMinimumLevel"
    /\ last.read.level = 49
    /\ user = last.read

\* C24: prestigeUser for a player at level 50 or above succeeds, stores
\* level 1 and experience 0, raises prestigeLevel by 1 and prestigePoints by
\* floor(level / 10), and leaves totalLifetimeExperience as it was.
C24_PrestigeResets ==
    [][ (PrestigeStep /\ user.level >= 50)
            => /\ last'.result = "ok"
               /\ user'.level = 1
               /\ user'.experience = 0
               /\ user'.prestigeLevel = user.prestigeLevel + 1
               /\ user'.prestigePoints = user.prestigePoints + user.level \div 10
               /\ user'.totalLifetimeExperience = user.totalLifetimeExperience
      ]_vars

\* C24 witness: a prestige from a level that is not a multiple of 10, with
\* experience within the level and lifetime experience kept.
C24_Witness ==
    /\ last.op = "prestigeUser"
    /\ last.result = "ok"
    /\ last.read.level > 50
    /\ last.read.level % 10 # 0
    /\ last.read.experience > 0
    /\ user.level = 1
    /\ user.experience = 0
    /\ user.prestigePoints = last.read.prestigePoints + 5
    /\ user.totalLifetimeExperience = last.read.totalLifetimeExperience
    /\ user.totalLifetimeExperience > 0

C26_ReconcileIdempotent ==
    (calc.fn = "reconcile" /\ ~calc.threw) =>
        LET a == calc.args
        IN  /\ calculateRegeneratedEnergy(a.currentEnergy, a.maxEnergy,
                   a.lastEnergyUpdate, a.regenMultiplier, a.inRecoveryZone, a.t)
                 = calc.out
            /\ ~calculateRegeneratedEnergyThrows(calc.out, a.maxEnergy, a.regenMultiplier)
            /\ calculateRegeneratedEnergy(calc.out, a.maxEnergy, a.t,
                   a.regenMultiplier, a.inRecoveryZone, a.t)
                 = calc.out

\* C26 witness: a regeneration that credited minutes and stayed below
\* maxEnergy, so that a second credit would show.
C26_Witness ==
    /\ calc.fn = "reconcile"
    /\ ~calc.threw
    /\ calc.args.regenMultiplier > 0
    /\ calc.out > calc.args.currentEnergy
    /\ calc.out < calc.args.maxEnergy

\* C27: for xp >= 0, getLevelFromXp(xp) is the largest level, at most
\* maxLevel, whose cumulative XP getXpForLevel(level) is at most xp, and it
\* does not decrease when xp grows; getLevelFromXp(250) = 3;
\* getXpForLevel(L) is 0 for L <= 1 and getXpForLevel(L - 1) plus the XP
\* level L - 1 requires otherwise, and getLevelFromXp(getXpForLevel(L)) = L.
C27_LevelFromXpInvertsCumulative ==
    /\ (calc.fn = "levelFromXp" /\ calc.args.xp >= 0) =>
          /\ calc.out \in 1 .. maxLevel
          /\ getXpForLevel(calc.out) <= calc.args.xp
          /\ (calc.out < maxLevel => calc.args.xp < getXpForLevel(calc.out + 1))
          /\ (calc.args.xp = 250 => calc.out = 3)
          /\ \A x \in XpInputs :
                (0 <= x /\ x <= calc.args.xp) => getLevelFromXp(x) <= calc.out
    /\ calc.fn = "xpForLevel" =>
          /\ (calc.args.level <= 1 => calc.out = 0)
          /\ (calc.args.level > 1 =>
                 calc.out = getXpForLevel(calc.args.level - 1)
                               + getXpRequiredForNextLevel(calc.args.level - 1))
          /\ (calc.args.level >= 1 => getLevelFromXp(calc.out) = calc.args.level)

\* C27 witness: the design document's example, 220 <= 250 < 364.
C27_Witness ==
    /\ calc.fn = "levelFromXp"
    /\ calc.args.xp = 250
    /\ calc.out = 3
    /\ getXpForLevel(3) = 220
    /\ getXpForLevel(4) = 364

\* Exact arithmetic on naturals of any size, written as sequences of
\* digits to the base 10000, lowest digit first and no leading zero.
RECURSIVE BigOf(_)
BigOf(n) == IF n = 0 THEN << >> ELSE <<n % 10000>> \o BigOf(n \div 10000)

\* digits times k plus carry, for 0 < k < 10000.
RECURSIVE BigTimes(_, _, _)
BigTimes(digits, k, carry) ==
    IF digits = << >>
    THEN BigOf(carry)
    ELSE LET v == Head(digits) * k + carry
         IN  <<v % 10000>> \o BigTimes(Tail(digits), k, v \div 10000)

\* digits times k to the n-th power.
RECURSIVE BigTimesPower(_, _, _)
BigTimesPower(digits, k, n) ==
    LET product == BigTimes(digits, k, 0)
    IN  IF n = 0 \/ Len(product) = 0
        THEN digits
        ELSE BigTimesPower(product, k, n - 1)

RECURSIVE BigLeqFrom(_, _, _)
BigLeqFrom(a, b, i) ==
    IF i = 0 THEN TRUE
    ELSE IF a[i] # b[i] THEN a[i] < b[i]
    ELSE BigLeqFrom(a, b, i - 1)

BigLeq(a, b) ==
    IF Len(a) # Len(b) THEN Len(a) < Len(b) ELSE BigLeqFrom(a, b, Len(a))

\* r = floor(100 * 1.2^(level - 1)), i.e.
\* r * 5^(level - 1) <= 100 * 6^(level - 1) < (r + 1) * 5^(level - 1).
IsScaledRequirement(r, level) ==
    LET scaled == BigTimesPower(BigOf(100), 6, level - 1)
    IN  /\ BigLeq(BigTimesPower(BigOf(r), 5, level - 1), scaled)
        /\ ~BigLeq(BigTimesPower(BigOf(r + 1), 5, level - 1), scaled)

\* C28: getXpRequiredForNextLevel(level) is floor(100 * 1.2^(level - 1))
\* for 1 <= level < maxLevel and Infinity from maxLevel on; it is 100 for
\* level 1 and 120 for level 2, and getXpForLevel(3) is 220.
C28_RequiredXpIsScaledFloor ==
    /\ calc.fn = "xpRequired" =>
          /\ (calc.args.level < maxLevel
                 => IsScaledRequirement(calc.out, calc.args.level))
          /\ (calc.args.level >= maxLevel => calc.out = Infinity)
          /\ (calc.args.level = 1 => calc.out = 100)
          /\ (calc.args.level = 2 => calc.out = 120)
          /\ calc.out <= Infinity
    /\ (calc.fn = "xpForLevel" /\ calc.args.level = 3) => calc.out = 220

\* C28 witness: a requirement that is rounded down, 172 for 172.8 at
\* level 4.
C28_Witness ==
    /\ calc.fn = "xpRequired"
    /\ calc.args.level = 4
    /\ calc.out = 172
    /\ ~IsScaledRequirement(173, 4)
    /\ ~IsScaledRequirement(171, 4)

\* C29: for baseEnergyCost > 0 and efficiencyBonus >= 0 the cost is
\* max(1, floor(baseEnergyCost * (1 - min(efficiencyBonus, 0.90)))): at
\* least 1, at least a tenth of baseEnergyCost rounded down, at most
\* baseEnergyCost, and 10 for baseEnergyCost 100 and efficiencyBonus 0.95.
C29_EfficiencyCost ==
    (calc.fn = "efficiency"
        /\ calc.args.baseEnergyCost > 0 /\ calc.args.efficiencyBonus >= 0) =>
        LET a == calc.args
            bonus == Min(a.efficiencyBonus, 90)
        IN  /\ ~calc.threw
            /\ calc.out = Max(1, (a.baseEnergyCost * (100 - bonus)) \div 100)
            /\ calc.out >= 1
            /\ calc.out >= a.baseEnergyCost \div 10
            /\ calc.out <= a.baseEnergyCost
            /\ (a.baseEnergyCost = 100 /\ a.efficiencyBonus = 95) => calc.out = 10

\* C30: a work or craft action is rejected for lack of energy only when
\* the energy regenerated from the row it read is below the cost, i.e. when
\* consumeEnergy on that row at that time fails with InsufficientEnergy.
C30_RejectedOnlyBelowReconciled ==
    (last.op \in Procs /\ last.result = "NotEnoughEnergy") =>
        /\ ReadReconciled < last.amount
        /\ consumeEnergy(last.read, last.amount, last.at).result
              = "InsufficientEnergy"

\* The energy consumeEnergy calculates at time t from the stored row.
ReconciledAt(row, t) ==
    calculateRegeneratedEnergy(row.currentEnergy, row.maxEnergy,
        row.updatedAt, defaultRegenMultiplier, FALSE, t)

\* C31: a write to the player row by an operation other than an energy
\* operation (addCurrency, addExperience, updateUserActivity) leaves the
\* energy a consumeEnergy call calculates at that time and at every later
\* time as it was.
C31_UnrelatedWritesKeepReconciledEnergy ==
    [][ (\A p \in Procs : ~(pc[p] = "consume" /\ pc'[p] = "idle"))
            => \A t \in now .. MaxTime :
                  ReconciledAt(user', t) = ReconciledAt(user, t)
      ]_vars

\* The energy a zone entry or exit calculates at time t from the stored
\* UserEnergyState row.
ZoneReconciledAt(row, state, t) ==
    Reconcile(state, getMaxEnergyForLevel(row.level, state.passiveMaxEnergyBonus), t)

\* C32: the player has one current energy.  A consumeEnergy or
\* regenerateEnergy call that changes the energy changes by as much the
\* energy a zone entry or exit calculates at that time, and the energy a
\* zone entry or exit stores is the energy a consumeEnergy call at that time
\* checks against.
C32_SingleCurrentEnergy ==
    [][ /\ (acct' # acct)
            => ZoneReconciledAt(user', es', now) - ZoneReconciledAt(user, es, now)
                  = ReconciledAt(user', now) - ReconciledAt(user, now)
        /\ (last' # last /\ last'.op \in {"enter", "leave"} /\ last'.result = "ok")
            => es'.currentEnergy = ReconciledAt(user', now)
      ]_vars

\* C33: regenerateEnergy and an energy boost never lower the energy: the
\* energy stored by a successful call is at least the energy regenerated up
\* to the call, also when that energy is above maxEnergy or above the cap
\* of the boost, and for a boost without overflow.
C33_GrantAndBoostNeverLower ==
    /\ (last.op = "regenerate" /\ last.result = "ok")
          => user.currentEnergy >= ReadReconciled
    /\ (last.op = "boost" /\ last.result = "ok")
          => es.currentEnergy >= Reconcile(last.es, last.es.maxEnergy, last.at)

\* C34: performWork is all-or-nothing: a call that returns success = false
\* has changed neither the tool's durability nor the player's energy,
\* experience or inventory.
C34_FailedWorkChangesNothing ==
    (last.op = "performWork" /\ last.result # "ok") =>
        /\ last.durabilityChange = 0
        /\ last.energyConsumed = 0
        /\ last.xpGained = 0
        /\ last.itemsGained = 0

\* C35: no update of two overlapping addExperience calls is lost: what a
\* call writes is what addExperience yields from the row as stored at the
\* time of the write, so that totalLifetimeExperience grows by the actualXp
\* of both calls and level and experience are those of the two calls run
\* one after the other.
C35_NoLostExperienceUpdate ==
    [][ \A p \in Procs :
           (pc[p] = "xpUpdate" /\ pc'[p] # "xpUpdate") =>
               LET x == addExperience(user, loc[p].amount,
                                      loc[p].multipliers.totalMultiplier)
               IN  /\ user'.totalLifetimeExperience = x.totalLifetimeExperience
                   /\ user'.level = x.newLevel
                   /\ user'.experience = x.newExperience
      ]_vars

\* The sum of the amounts of a set of MilestoneReward rows.
RECURSIVE SumAmounts(_)
SumAmounts(rows) ==
    IF rows = {}
    THEN 0
    ELSE LET r == CHOOSE x \in rows : TRUE
         IN  r.amount + SumAmounts(rows \ {r})

\* C36: a milestone reward is paid at most once.  A claim of a reward that
\* is already claimed fails; the currency and the maximum energy paid out
\* never exceed the amounts of the rewards being claimed or claimed, and
\* once no claim is in progress they are the amounts of the claimed rewards.
C36_RewardPaidOnce ==
    LET paid(type) ==
            SumAmounts({r \in rewards : r.rewardType = type /\ r.claimed})
        inProgress(type) ==
            SumAmounts({r \in rewards : /\ r.rewardType = type
                                        /\ ~r.claimed
                                        /\ \E p \in Procs :
                                              /\ pc[p] # "idle"
                                              /\ loc[p].rewardId = r.id})
        base == (CHOOSE e \in InitEnergyStates : TRUE).maxEnergy
    IN  /\ (last.op = "claimMilestoneReward" /\ last.result = "ok")
              => ~last.reward.claimed
        /\ user.currency <= paid("CURRENCY") + inProgress("CURRENCY")
        /\ es.maxEnergy <= base + Pt(paid("MAX_ENERGY") + inProgress("MAX_ENERGY"))
        /\ (\A p \in Procs : pc[p] = "idle")
              => /\ user.currency = paid("CURRENCY")
                 /\ es.maxEnergy = base + Pt(paid("MAX_ENERGY"))

\* C37: for the base amount, the events, the level and the average level of
\* an addExperience call, calculateActualXpEarned yields the event
\* multiplier, the catch-up multiplier and the awarded XP the call used.
C37_ExperienceComputationsAgree ==
    last.op = "addExperience" =>
        LET c == calculateActualXpEarned(events, avgLevel, last.amount,
                     last.row.level, Player, Undefined, last.readAt)
        IN  /\ c.eventMultiplier.num * 10
                   = last.multipliers.eventMultiplier * c.eventMultiplier.den
            /\ c.catchupMultiplier = last.multipliers.catchupMultiplier
            /\ c.totalXp = last.x.actualXp

\* The sum of f over the buyers.
RECURSIVE SumOver(_, _)
SumOver(f, S) ==
    IF S = {}
    THEN 0
    ELSE LET u == CHOOSE x \in S : TRUE
         IN  f[u] + SumOver(f, S \ {u})

\* C38: for any interleaving of purchaseListing calls on one listing, the
\* quantity delivered never exceeds the quantity listed and no balance is
\* negative; once no call is in progress every buyer has paid price times
\* the quantity received and the seller holds what the buyers paid; and a
\* call that failed has charged, credited and delivered nothing.
C38_PurchasesConserve ==
    LET paid == [u \in Buyers |-> InitCurrency[u] - market.currency[u]]
    IN  /\ SumOver(market.items, Buyers) <= InitListing.quantity
        /\ \A u \in Buyers \cup {Seller} : market.currency[u] >= 0
        /\ (\A p \in Procs : pc[p] = "idle")
              => /\ \A u \in Buyers : paid[u] = InitListing.price * market.items[u]
                 /\ market.currency[Seller] - InitCurrency[Seller]
                       = SumOver(paid, Buyers)
        /\ (last.op = "purchaseListing" /\ last.result # "ok")
              => /\ last.charged = 0
                 /\ last.credited = 0
                 /\ last.delivered = 0

\* C39: the rewards of a quest are granted at most once.  completeQuest
\* succeeds only on an ACTIVE row whose objective has reached its target
\* and leaves the row COMPLETED; a completeQuest or abandonQuest on a
\* COMPLETED row fails, and a call that failed granted nothing; the currency
\* the player holds never exceeds the quest's reward, also with two
\* completeQuest calls in progress together.
C39_QuestRewardedOnce ==
    /\ user.currency <= Quest.rewards.currency
    /\ (last.op = "completeQuest" /\ last.result = "ok")
          => /\ last.questProgress.status = "ACTIVE"
             /\ last.questProgress.progress >= Quest.targetAmount
             /\ quest.status = "COMPLETED"
    /\ (last.op \in {"completeQuest", "abandonQuest"}
            /\ last.questProgress.status = "COMPLETED")
          => /\ last.result # "ok"
             /\ quest.status = "COMPLETED"
    /\ (last.op = "completeQuest" /\ last.result # "ok") => last.granted = 0

====
